---------------------------- MODULE Spec2Model ----------------------------
(***************************************************************************)
(* Synchronization and webhook ingestion engine of the Xeno Shopify        *)
(* service: the reconciliation upserts (ShopifyService), the sync          *)
(* orchestrator and scheduler (scheduler with SyncResult), the webhook     *)
(* pipeline and the cart-abandonment detector (webhooks/shopify/route.ts). *)
(*                                                                         *)
(* Time is counted in half minutes: Date.now() is the variable now,        *)
(* advanced                                                                *)
(* by the action Tick.  The relational store is the set-valued variables   *)
(* customers, orders, products, orderItems, customEvents, syncLog and the  *)
(* tenant table tenants.                                                   *)
(***************************************************************************)
EXTENDS Integers, Sequences, FiniteSets, TLC

VARIABLES
    now,            \* Date.now(), in half minutes
    nextId,         \* source of the store's generated row ids (cuid)
    tenants,        \* tenant table: id -> row
    customers,      \* set of Customer rows
    orders,         \* set of Order rows
    products,       \* set of Product rows
    orderItems,     \* set of OrderItem rows
    customEvents,   \* set of CustomEvent rows
    syncLog,        \* set of SyncLog rows
    applied,        \* history: per (kind, tenant, external id) the upserts applied
    upstream,       \* per tenant: number of upstream records inside the fetch window
    runs,           \* syncTenant invocations: run id -> frame
    sched,          \* the syncAllTenants invocation
    lastWrite,      \* history: per (tenant, type) the SyncLog entry appended last
    requestCounts,  \* the webhook route's rate-limit map: domain -> counter
    reqs,           \* history: the webhook requests answered so far
    timers,         \* deferred abandonment checks (setTimeout callbacks)
    retry,          \* the retrySync invocation followed on its own
    writers         \* upsertOrder invocations followed one store call at a time

storeVars == <<tenants, customers, orders, products, orderItems, customEvents, syncLog>>
syncVars  == <<upstream, runs, sched, lastWrite, retry, writers>>
hookVars  == <<requestCounts, reqs, timers>>
vars == <<now, nextId, tenants, customers, orders, products, orderItems,
          customEvents, syncLog, applied, upstream, runs, sched, lastWrite,
          requestCounts, reqs, timers, retry, writers>>

Null  == "null"        \* null / undefined where a string is expected
NoNum == -1            \* null / undefined where a number, id or date is expected
NoRef == 0             \* a null reference to a local row (local ids start at 1)
NaN   == "NaN"         \* the number NaN
None  == <<>>          \* an absent array or object; <<x>> is a present one

-----------------------------------------------------------------------------
(* Bounds of the model *)

MaxApplies == 3         \* upserts applied in one behaviour of SpecUpsert
MaxTicks   == 2         \* clock advances in one behaviour
MaxUpstream == 4        \* upstream records inside one fetch window
SyncLimit  == 2         \* the page size the scheduler asks for (100 in the code)
SafetyLimit == 4        \* the page loop's safety cap (5000 in the code)
MaxSchedRuns == 2       \* scheduled runs in one behaviour
MaxManual  == 1         \* manual syncs in one behaviour
MaxInactiveRequests == 1 \* webhook requests in one behaviour of SpecInactive
MaxTenantRequests == 1   \* webhook requests in one behaviour of SpecTenants
MaxTenantScheds == 1     \* scheduled runs in one behaviour of SpecTenants
MaxWriters == 2         \* upsertOrder invocations in one behaviour of SpecItems
MaxNumericApplies == 2  \* upserts in one behaviour of SpecNumbers
MaxCalls   == 1         \* direct syncTenant calls in one behaviour of SpecGuard

TenantIds == {"t1", "t2"}

(* Clock advances: half a minute, just over the minimum sync interval, just *)
(* over the retention window.                                               *)
MaxRetries == 3             \* retrySync(..., 3)
BaseDelay == 1000           \* retrySync's default baseDelay, in milliseconds
MinSyncInterval == 20       \* 10 * 60 * 1000 ms
RetentionWindow == 86400    \* 30 * 24 * 60 * 60 * 1000 ms
TickSteps == {MinSyncInterval + 1, RetentionWindow + 1}

-----------------------------------------------------------------------------
(* Conversions used by the mapping code *)

\* Number.prototype.toString on the external ids the model uses.
ToStr(n) ==
    CASE n = 1 -> "1" [] n = 2 -> "2" [] n = 3 -> "3" [] n = 4 -> "4"
      [] n = 5 -> "5" [] n = 6 -> "6" [] n = 7 -> "7" [] n = 8 -> "8"
      [] n = 9 -> "9" [] OTHER -> "0"

\* parseFloat on the decimal strings the model uses; amounts are kept in cents.
ParseFloat(s) ==
    CASE s = "0" -> "0"
      [] s = "10.50" -> "1050"
      [] s = "25.00" -> "2500"
      [] s = "3.99" -> "399"
      [] OTHER -> NaN          \* undefined, "" or no leading number

\* s || d for a string
StrOr(s, d) == IF s \in {Null, ""} THEN d ELSE s

\* n || d for a number
NumOr(n, d) == IF n \in {NoNum, 0} THEN d ELSE n

\* b || false for a JSON boolean ("true", "false" or absent)
BoolOrFalse(b) == b = "true"

\* tags ? tags.split(', ') : []
SplitTags(s) ==
    CASE s \in {Null, ""} -> <<>>
      [] s = "vip" -> <<"vip">>
      [] s = "vip, new" -> <<"vip", "new">>
      [] s = "vip,new" -> <<"vip,new">>
      [] OTHER -> <<s>>

\* value ? new Date(value) : null
ToDate(v) == IF v \in {NoNum, 0} THEN NoNum ELSE v

\* value?.toString() for an optional number
OptToStr(n) == IF n = NoNum THEN Null ELSE ToStr(n)

\* array || []
ListOr(a) == IF a = None THEN <<>> ELSE a[1]

-----------------------------------------------------------------------------
(* Upstream payloads the model draws from *)

CustomerPayloads == {
    [id |-> 7, email |-> "a@x", first_name |-> "Ann", last_name |-> "Lee",
     phone |-> "555", total_spent |-> "10.50", orders_count |-> 2,
     tags |-> "vip, new", accepts_marketing |-> "true"],
    [id |-> 7, email |-> "b@x", first_name |-> "Ann", last_name |-> "Ray",
     phone |-> Null, total_spent |-> Null, orders_count |-> NoNum,
     tags |-> Null, accepts_marketing |-> Null] }

LineItemsA == << [product_id |-> 2, variant_id |-> 8, title |-> "mug",
                  quantity |-> 1, price |-> "3.99", total_discount |-> Null] >>
LineItemsB == << [product_id |-> NoNum, variant_id |-> NoNum, title |-> "cap",
                  quantity |-> 2, price |-> "10.50", total_discount |-> "0"],
                 [product_id |-> 2, variant_id |-> 8, title |-> "mug",
                  quantity |-> 1, price |-> "3.99", total_discount |-> Null] >>

\* customer is the external id of the payload's customer object (customer?.id)
OrderPayloads == {
    [id |-> 1, customer |-> 7, order_number |-> 1, name |-> "#1",
     email |-> "a@x", total_price |-> "25.00", subtotal_price |-> "10.50",
     total_tax |-> "3.99", currency |-> "INR", financial_status |-> "pending",
     fulfillment_status |-> Null, tags |-> "vip", note |-> Null,
     processed_at |-> 5, cancelled_at |-> NoNum, line_items |-> <<LineItemsA>>],
    [id |-> 1, customer |-> 7, order_number |-> NoNum, name |-> "#1",
     email |-> "a@x", total_price |-> "10.50", subtotal_price |-> Null,
     total_tax |-> Null, currency |-> "INR", financial_status |-> "paid",
     fulfillment_status |-> "fulfilled", tags |-> Null, note |-> "gift",
     processed_at |-> 5, cancelled_at |-> 6, line_items |-> <<LineItemsB>>],
    [id |-> 1, customer |-> NoNum, order_number |-> 1, name |-> "#1",
     email |-> Null, total_price |-> "25.00", subtotal_price |-> "10.50",
     total_tax |-> "0", currency |-> "INR", financial_status |-> "paid",
     fulfillment_status |-> Null, tags |-> Null, note |-> Null,
     processed_at |-> NoNum, cancelled_at |-> NoNum, line_items |-> None] }

ProductPayloads == {
    [id |-> 2, title |-> "mug", handle |-> "mug", body_html |-> "<p>mug</p>",
     vendor |-> "acme", product_type |-> "kitchen", tags |-> "vip,new",
     status |-> "active", images |-> << <<"i1">> >>, variants |-> << <<8>> >>],
    [id |-> 2, title |-> "big mug", handle |-> "mug", body_html |-> Null,
     vendor |-> "acme", product_type |-> Null, tags |-> Null,
     status |-> "draft", images |-> None, variants |-> None] }

-----------------------------------------------------------------------------
(* Reconciliation engine: ShopifyService.upsertCustomer / upsertOrder /     *)
(* upsertProduct.  The store enforces the unique index (shopifyId,          *)
(* tenantId) of each table, so one upsert is one atomic step.               *)

ByKey(rows, t, sid) == {r \in rows : r.shopifyId = sid /\ r.tenantId = t}

\* the `update:` block of prisma.customer.upsert
CustomerUpdateData(p, time) ==
    [email |-> p.email, firstName |-> p.first_name, lastName |-> p.last_name,
     phone |-> p.phone,
     totalSpent |-> ParseFloat(StrOr(p.total_spent, "0")),
     ordersCount |-> NumOr(p.orders_count, 0),
     tags |-> SplitTags(p.tags),
     acceptsMarketing |-> BoolOrFalse(p.accepts_marketing),
     updatedAt |-> time]

\* the `create:` block of prisma.customer.upsert
CustomerCreateData(t, p) ==
    [shopifyId |-> ToStr(p.id), tenantId |-> t,
     email |-> p.email, firstName |-> p.first_name, lastName |-> p.last_name,
     phone |-> p.phone,
     totalSpent |-> ParseFloat(StrOr(p.total_spent, "0")),
     ordersCount |-> NumOr(p.orders_count, 0),
     tags |-> SplitTags(p.tags),
     acceptsMarketing |-> BoolOrFalse(p.accepts_marketing)]

\* prisma.<table>.upsert: update the row with the key, or insert one
UpsertRows(rows, t, sid, updateData, createData, id, time) ==
    LET hit == ByKey(rows, t, sid)
    IN  IF hit = {}
        THEN rows \cup {createData @@ [id |-> id, createdAt |-> time, updatedAt |-> time]}
        ELSE (rows \ hit) \cup {updateData @@ r : r \in hit}

upsertCustomer(rows, t, p, id, time) ==
    UpsertRows(rows, t, ToStr(p.id), CustomerUpdateData(p, time),
               CustomerCreateData(t, p), id, time)

\* the `update:` block of prisma.product.upsert
ProductUpdateData(p, time) ==
    [title |-> p.title, handle |-> p.handle, description |-> p.body_html,
     vendor |-> p.vendor, productType |-> p.product_type,
     tags |-> SplitTags(p.tags), status |-> p.status,
     images |-> ListOr(p.images), variants |-> ListOr(p.variants),
     updatedAt |-> time]

\* the `create:` block of prisma.product.upsert
ProductCreateData(t, p) ==
    [shopifyId |-> ToStr(p.id), tenantId |-> t,
     title |-> p.title, handle |-> p.handle, description |-> p.body_html,
     vendor |-> p.vendor, productType |-> p.product_type,
     tags |-> SplitTags(p.tags), status |-> p.status,
     images |-> ListOr(p.images), variants |-> ListOr(p.variants)]

upsertProduct(rows, t, p, id, time) ==
    UpsertRows(rows, t, ToStr(p.id), ProductUpdateData(p, time),
               ProductCreateData(t, p), id, time)

\* prisma.customer.findUnique / prisma.product.findUnique by (shopifyId, tenantId):
\* the local id of the row, or a null reference
\* a lookup by Shopify id alone, which may find a row of another tenant
FindIdAnyTenant(rows, t, sid) ==
    LET hit == {r \in rows : r.shopifyId = sid}
    IN  IF hit = {} THEN NoRef
        ELSE (CHOOSE r \in hit : \A x \in hit : r.id <= x.id).id

FindId(rows, t, sid) ==
    IF ByKey(rows, t, sid) = {} THEN NoRef
    ELSE (CHOOSE r \in ByKey(rows, t, sid) : TRUE).id

\* `if (shopifyOrder.customer?.id) customer = findUnique(...)`, then customer?.id
OrderCustomerLink(custRows, t, p) ==
    IF p.customer \in {NoNum, 0} THEN NoRef ELSE FindId(custRows, t, ToStr(p.customer))

\* the `update:` block of prisma.order.upsert
OrderUpdateData(p, time) ==
    [orderNumber |-> StrOr(OptToStr(p.order_number), p.name),
     email |-> p.email,
     totalPrice |-> ParseFloat(p.total_price),
     subtotalPrice |-> ParseFloat(StrOr(p.subtotal_price, "0")),
     totalTax |-> ParseFloat(StrOr(p.total_tax, "0")),
     currency |-> p.currency,
     financialStatus |-> p.financial_status,
     fulfillmentStatus |-> p.fulfillment_status,
     tags |-> SplitTags(p.tags), note |-> p.note,
     processedAt |-> ToDate(p.processed_at),
     cancelledAt |-> ToDate(p.cancelled_at),
     updatedAt |-> time]

\* the `create:` block of prisma.order.upsert
OrderCreateData(t, p, customerId) ==
    [shopifyId |-> ToStr(p.id), tenantId |-> t, customerId |-> customerId,
     orderNumber |-> StrOr(OptToStr(p.order_number), p.name),
     email |-> p.email,
     totalPrice |-> ParseFloat(p.total_price),
     subtotalPrice |-> ParseFloat(StrOr(p.subtotal_price, "0")),
     totalTax |-> ParseFloat(StrOr(p.total_tax, "0")),
     currency |-> p.currency,
     financialStatus |-> p.financial_status,
     fulfillmentStatus |-> p.fulfillment_status,
     tags |-> SplitTags(p.tags), note |-> p.note,
     processedAt |-> ToDate(p.processed_at),
     cancelledAt |-> ToDate(p.cancelled_at)]

\* the Order rows after upsertOrder's prisma.order.upsert
upsertOrderRow(rows, custRows, t, p, id, time) ==
    UpsertRows(rows, t, ToStr(p.id), OrderUpdateData(p, time),
               OrderCreateData(t, p, OrderCustomerLink(custRows, t, p)), id, time)

\* the `data:` block of prisma.orderItem.create for line item number i
OrderItemData(prodRows, t, orderId, li) ==
    [orderId |-> orderId,
     productId |-> IF li.product_id \in {NoNum, 0} THEN NoRef
                   ELSE FindId(prodRows, t, ToStr(li.product_id)),
     variantId |-> OptToStr(li.variant_id),
     title |-> li.title, quantity |-> li.quantity,
     price |-> ParseFloat(li.price),
     totalDiscount |-> ParseFloat(StrOr(li.total_discount, "0"))]

\* the OrderItem rows after upsertOrder's line-item block: delete the order's
\* items, then create one row per line item (ids firstId, firstId + 1, ...)
replaceOrderItems(items, prodRows, t, p, orderId, firstId) ==
    IF p.line_items = None THEN items
    ELSE LET lis == p.line_items[1]
         IN  {r \in items : r.orderId # orderId} \cup
             {OrderItemData(prodRows, t, orderId, lis[i]) @@ [id |-> firstId + i - 1] :
                i \in 1..Len(lis)}

LineItemCount(p) == IF p.line_items = None THEN 0 ELSE Len(p.line_items[1])

-----------------------------------------------------------------------------
(* The clock *)

TickCount == applied.ticks

Tick(d) ==
    /\ applied.ticks < MaxTicks
    /\ now' = now + d
    /\ applied' = [applied EXCEPT !.ticks = @ + 1]
    /\ UNCHANGED <<nextId, storeVars, syncVars, hookVars>>

-----------------------------------------------------------------------------
(* SpecUpsert: the upserts applied in any order, by any caller (the sync    *)
(* loops and the webhook handlers call the same three functions)            *)

NoteApplied(set, t, sid, p, link) ==
    LET old == {a \in set : a.tenantId = t /\ a.shopifyId = sid}
        n   == IF old = {} THEN 0 ELSE (CHOOSE a \in old : TRUE).count
    IN  (set \ old) \cup
        {[tenantId |-> t, shopifyId |-> sid, count |-> n + 1, last |-> p, link |-> link]}

ApplyCustomer(t, p) ==
    /\ applied.n < MaxApplies
    /\ customers' = upsertCustomer(customers, t, p, nextId, now)
    /\ nextId' = nextId + 1
    /\ applied' = [applied EXCEPT !.n = @ + 1,
                     !.customers = NoteApplied(@, t, ToStr(p.id), p, NoRef)]
    /\ UNCHANGED <<now, tenants, orders, products, orderItems, customEvents,
                   syncLog, syncVars, hookVars>>

ApplyProduct(t, p) ==
    /\ applied.n < MaxApplies
    /\ products' = upsertProduct(products, t, p, nextId, now)
    /\ nextId' = nextId + 1
    /\ applied' = [applied EXCEPT !.n = @ + 1,
                     !.products = NoteApplied(@, t, ToStr(p.id), p, NoRef)]
    /\ UNCHANGED <<now, tenants, customers, orders, orderItems, customEvents,
                   syncLog, syncVars, hookVars>>

ApplyOrder(t, p) ==
    /\ applied.n < MaxApplies
    /\ orders' = upsertOrderRow(orders, customers, t, p, nextId, now)
    /\ orderItems' = replaceOrderItems(orderItems, products, t, p,
                        FindId(orders', t, ToStr(p.id)), nextId + 1)
    /\ nextId' = nextId + 1 + LineItemCount(p)
    /\ applied' = [applied EXCEPT !.n = @ + 1,
                     !.orders = NoteApplied(@, t, ToStr(p.id), p,
                                            OrderCustomerLink(customers, t, p))]
    /\ UNCHANGED <<now, tenants, customers, products, customEvents,
                   syncLog, syncVars, hookVars>>

-----------------------------------------------------------------------------
(* upsertOrder one store call at a time: prisma.order.upsert, then          *)
(* orderItem.deleteMany, then one orderItem.create per line item, with no   *)
(* transaction around them.  failAt is the line item whose create the store *)
(* rejects (0: none), which makes upsertOrder throw there.                  *)

WriterStart(t, p, failAt) ==
    /\ Cardinality(writers) < MaxWriters
    /\ writers' = writers \cup
          {[id |-> Cardinality(writers) + 1, tenantId |-> t, p |-> p, failAt |-> failAt,
            pc |-> "upsert", orderId |-> NoRef, i |-> 1]}
    /\ UNCHANGED <<now, nextId, storeVars, applied, upstream, runs, sched, lastWrite,
                   retry, hookVars>>

SetWriter(w, new) == writers' = (writers \ {w}) \cup {new}

\* const order = await prisma.order.upsert(...)
WriterUpsert(w) ==
    /\ w \in writers /\ w.pc = "upsert"
    /\ orders' = upsertOrderRow(orders, customers, w.tenantId, w.p, nextId, now)
    /\ nextId' = nextId + 1
    /\ SetWriter(w, [w EXCEPT !.orderId = FindId(orders', w.tenantId, ToStr(w.p.id)),
                              !.pc = IF w.p.line_items = None THEN "done" ELSE "delete"])
    /\ UNCHANGED <<now, tenants, customers, products, orderItems, customEvents, syncLog,
                   applied, upstream, runs, sched, lastWrite, retry, hookVars>>

\* await prisma.orderItem.deleteMany({where: {orderId: order.id}})
WriterDelete(w) ==
    /\ w \in writers /\ w.pc = "delete"
    /\ orderItems' = {r \in orderItems : r.orderId # w.orderId}
    /\ SetWriter(w, [w EXCEPT !.pc = IF LineItemCount(w.p) = 0 THEN "done" ELSE "create"])
    /\ UNCHANGED <<now, nextId, tenants, customers, orders, products, customEvents,
                   syncLog, applied, upstream, runs, sched, lastWrite, retry, hookVars>>

\* one pass of `for (const lineItem of shopifyOrder.line_items)`: the product
\* lookup and prisma.orderItem.create
WriterCreate(w) ==
    /\ w \in writers /\ w.pc = "create"
    /\ IF w.failAt = w.i
       THEN /\ SetWriter(w, [w EXCEPT !.pc = "failed"])
            /\ UNCHANGED <<orderItems, nextId>>
       ELSE /\ orderItems' = orderItems \cup
                  {OrderItemData(products, w.tenantId, w.orderId, w.p.line_items[1][w.i])
                     @@ [id |-> nextId]}
            /\ nextId' = nextId + 1
            /\ SetWriter(w, [w EXCEPT !.i = @ + 1,
                                      !.pc = IF w.i = LineItemCount(w.p) THEN "done"
                                             ELSE "create"])
    /\ UNCHANGED <<now, tenants, customers, orders, products, customEvents, syncLog,
                   applied, upstream, runs, sched, lastWrite, retry, hookVars>>

NoRuns == [x \in {} |-> 0]

\* no retrySync invocation is being followed
NoRetry == [pc |-> "none"]

IdleSched == [pc |-> "idle", type |-> "orders", list |-> <<>>, i |-> 1,
              results |-> <<>>, outcome |-> [x \in {} |-> 0]]

TenantRow(active, token, secret) ==
    [isActive |-> active, hasToken |-> token, webhookSecret |-> secret]

\* history: nothing applied, requested or admitted yet
NoApplied ==
    [n |-> 0, ticks |-> 0, scheds |-> 0, manuals |-> 0, reqs |-> 0,
     customers |-> {}, orders |-> {}, products |-> {}, passes |-> {}, calls |-> 0,
     posts |-> {}]

\* the data tables are empty
InitData ==
    /\ now = 100
    /\ nextId = 1
    /\ customers = {} /\ orders = {} /\ products = {}
    /\ orderItems = {} /\ customEvents = {}
    /\ applied = NoApplied

InitStore ==
    /\ InitData
    /\ syncLog = {}

InitIdle ==
    /\ runs = NoRuns /\ retry = NoRetry /\ writers = {}
    /\ sched = IdleSched
    /\ lastWrite = {}
    /\ requestCounts = {}
    /\ reqs = {}
    /\ timers = {}

InitUpsert ==
    /\ InitStore
    /\ InitIdle
    /\ upstream = [t \in TenantIds |-> 0]
    /\ tenants = [t \in TenantIds |-> TenantRow(TRUE, TRUE, Null)]

NextUpsert ==
    \/ \E t \in TenantIds, p \in CustomerPayloads : ApplyCustomer(t, p)
    \/ \E t \in TenantIds, p \in ProductPayloads : ApplyProduct(t, p)
    \/ \E t \in TenantIds, p \in OrderPayloads : ApplyOrder(t, p)
    \/ Tick(1)

SpecUpsert == InitUpsert /\ [][NextUpsert]_vars

\* the columns a payload is mapped to (all but the store-generated ones)
Mapped(row, data) == \A f \in DOMAIN data : row[f] = data[f]

(***************************************************************************)
(* C1: for every tenant and upstream customer, order or product record     *)
(* whose upsert was applied two or more times, exactly one local row has   *)
(* the key (external id, tenant id), and its mapped columns equal the      *)
(* mapping of the payload applied last (for an order this includes the     *)
(* customer link the last application resolved).                           *)
(***************************************************************************)
C1_IdempotentUpsert ==
    /\ \A a \in applied.customers : a.count >= 2 =>
          /\ Cardinality(ByKey(customers, a.tenantId, a.shopifyId)) = 1
          /\ \A r \in ByKey(customers, a.tenantId, a.shopifyId) :
                Mapped(r, CustomerCreateData(a.tenantId, a.last))
    /\ \A a \in applied.products : a.count >= 2 =>
          /\ Cardinality(ByKey(products, a.tenantId, a.shopifyId)) = 1
          /\ \A r \in ByKey(products, a.tenantId, a.shopifyId) :
                Mapped(r, ProductCreateData(a.tenantId, a.last))
    /\ \A a \in applied.orders : a.count >= 2 =>
          /\ Cardinality(ByKey(orders, a.tenantId, a.shopifyId)) = 1
          /\ \A r \in ByKey(orders, a.tenantId, a.shopifyId) :
                Mapped(r, OrderCreateData(a.tenantId, a.last, a.link))

(***************************************************************************)
(* C23: after an order upsert, whether it created or updated the local     *)
(* order, the order's customer link is the local customer with the         *)
(* payload's external customer id in the same tenant if one existed at     *)
(* that time, and null otherwise.                                          *)
(***************************************************************************)
C23_LinkResolvedOnEveryUpsert ==
    \A a \in applied.orders :
        \A r \in ByKey(orders, a.tenantId, a.shopifyId) : r.customerId = a.link

\* C1 without the order's customer link: what the code does guarantee
C1_ExceptCustomerLink ==
    /\ \A a \in applied.customers : a.count >= 2 =>
          /\ Cardinality(ByKey(customers, a.tenantId, a.shopifyId)) = 1
          /\ \A r \in ByKey(customers, a.tenantId, a.shopifyId) :
                Mapped(r, CustomerCreateData(a.tenantId, a.last))
    /\ \A a \in applied.products : a.count >= 2 =>
          /\ Cardinality(ByKey(products, a.tenantId, a.shopifyId)) = 1
          /\ \A r \in ByKey(products, a.tenantId, a.shopifyId) :
                Mapped(r, ProductCreateData(a.tenantId, a.last))
    /\ \A a \in applied.orders : a.count >= 2 =>
          /\ Cardinality(ByKey(orders, a.tenantId, a.shopifyId)) = 1
          /\ \A r \in ByKey(orders, a.tenantId, a.shopifyId) :
                Mapped(r, [OrderCreateData(a.tenantId, a.last, a.link)
                             EXCEPT !.customerId = r.customerId])

-----------------------------------------------------------------------------
(* Audit log: ShopifyService.getLastSyncTime / updateLastSyncTime /         *)
(* resetSyncTime and the scheduler's shouldSync / logSyncResult /           *)
(* cleanupSyncLogs                                                          *)

LogEntry(id, t, ty, success, records, duration, error, time) ==
    [id |-> id, tenantId |-> t, syncType |-> ty, success |-> success,
     recordsProcessed |-> records, duration |-> duration, error |-> error,
     createdAt |-> time]

\* findFirst({where: {tenantId, syncType, success: true}, orderBy: {createdAt: 'desc'}})
\* then `lastLog ? lastLog.createdAt : null`
getLastSyncTime(log, t, ty) ==
    LET ok == {e \in log : e.tenantId = t /\ e.syncType = ty /\ e.success}
    IN  IF ok = {} THEN NoNum
        ELSE (CHOOSE e \in ok : \A f \in ok : f.createdAt <= e.createdAt).createdAt

\* shouldSync: true as soon as one requested type has no successful entry
\* younger than the minimum interval
shouldSync(log, time, t, types) ==
    \E i \in 1..Len(types) :
        LET lastSync == getLastSyncTime(log, t, types[i])
        IN  lastSync = NoNum \/ time - lastSync > MinSyncInterval

\* history: the requested types with a successful entry within the minimum
\* interval
RecentlySynced(log, time, t, types) ==
    {types[i] : i \in {j \in 1..Len(types) : ~shouldSync(log, time, t, <<types[j]>>)}}

\* resetSyncTime: deleteMany({where: {tenantId, syncType}})
resetSyncTime(log, t, ty) == {e \in log : ~(e.tenantId = t /\ e.syncType = ty)}

\* cleanupSyncLogs: deleteMany({where: {createdAt: {lt: thirtyDaysAgo}}})
cleanedLog(log, time) == {e \in log : ~(e.createdAt < time - RetentionWindow)}

\* history: remember the entry appended last for its (tenant, type)
NoteWrite(lw, e) ==
    {w \in lw : ~(w.tenantId = e.tenantId /\ w.syncType = e.syncType)} \cup
    {[tenantId |-> e.tenantId, syncType |-> e.syncType, id |-> e.id,
      success |-> e.success, at |-> e.createdAt]}

-----------------------------------------------------------------------------
(* Upstream API as seen by the page loops: a tenant holds upstream[t]       *)
(* records in the fetch window, with ids 1..upstream[t]; a request returns  *)
(* at most `limit` records following the cursor id                          *)

Min(a, b) == IF a <= b THEN a ELSE b

ShopifyMaxLimit == 250

\* params.limit = Math.min(limit, 250)
PageLimit == Min(SyncLimit, ShopifyMaxLimit)

\* the number of records a successful page request returns
PageSize(n, pageInfo, limit) == Min(limit, n - pageInfo)

\* a page loop that goes on after a short, non-empty page
hasMorePagesUntilEmpty(size, limit) == size # 0

\* the page loop's decision after a successful request that returned `size`
\* records: hasMorePages stays true only after a full page
hasMorePages(size, limit) == ~(size = 0 \/ size < limit)

\* the `while (hasMorePages && all.length < 5000)` test
loopContinues(more, fetched) == more /\ fetched < SafetyLimit

UpCustomer(k) ==
    [id |-> k, email |-> "a@x", first_name |-> "Ann", last_name |-> "Lee",
     phone |-> Null, total_spent |-> "10.50", orders_count |-> 1,
     tags |-> "vip", accepts_marketing |-> "true"]

UpProduct(k) ==
    [id |-> k, title |-> "mug", handle |-> "mug", body_html |-> Null,
     vendor |-> "acme", product_type |-> Null, tags |-> Null,
     status |-> "active", images |-> None, variants |-> None]

UpOrder(k) ==
    [id |-> k, customer |-> 1, order_number |-> k, name |-> "#",
     email |-> "a@x", total_price |-> "25.00", subtotal_price |-> "10.50",
     total_tax |-> "0", currency |-> "INR", financial_status |-> "paid",
     fulfillment_status |-> Null, tags |-> Null, note |-> Null,
     processed_at |-> 5, cancelled_at |-> NoNum,
     line_items |-> << << [product_id |-> 1, variant_id |-> NoNum, title |-> "mug",
                           quantity |-> 1, price |-> "3.99",
                           total_discount |-> Null] >> >>]

\* the `for (const customer of allCustomers) upsertCustomer(customer)` loop
RECURSIVE upsertCustomers(_, _, _, _, _)
upsertCustomers(rows, t, k, id, time) ==
    IF k = 0 THEN rows
    ELSE upsertCustomer(upsertCustomers(rows, t, k - 1, id, time), t,
                        UpCustomer(k), id + k - 1, time)

RECURSIVE upsertProducts(_, _, _, _, _)
upsertProducts(rows, t, k, id, time) ==
    IF k = 0 THEN rows
    ELSE upsertProduct(upsertProducts(rows, t, k - 1, id, time), t,
                       UpProduct(k), id + k - 1, time)

\* the order loop: record k uses the ids id + 2(k-1) (order) and the next (item)
RECURSIVE upsertOrders(_, _, _, _, _, _)
upsertOrders(st, custRows, prodRows, t, k, id) ==
    IF k = 0 THEN st
    ELSE LET prev == upsertOrders(st, custRows, prodRows, t, k - 1, id)
             rows == upsertOrderRow(prev.orders, custRows, t, UpOrder(k),
                                    id + 2 * (k - 1), st.time)
         IN  [prev EXCEPT
                !.orders = rows,
                !.items = replaceOrderItems(prev.items, prodRows, t, UpOrder(k),
                             FindId(rows, t, ToStr(k)), id + 2 * (k - 1) + 1)]

-----------------------------------------------------------------------------
(* Sync orchestrator: syncTenant (one frame per invocation), with           *)
(* ShopifyService.syncOrders / syncCustomers / syncProducts and their       *)
(* force variants inlined as the steps of the frame                         *)

NewFrame(t, types, force, origin, inv, time) ==
    [tenant |-> t, types |-> types, force |-> force, origin |-> origin, inv |-> inv,
     pc |-> "guard", ti |-> 1, typeStart |-> time,
     cursor |-> NoNum, fetched |-> 0, pageInfo |-> 0, more |-> TRUE,
     processed |-> 0, err |-> Null, results |-> <<>>,
     \* history of the current entity type's sync
     pageCount |-> 0, sawShort |-> FALSE, afterShort |-> 0,
     fetchFailed |-> FALSE, wrote |-> {},
     expectT1 |-> NoNum, expectKept |-> FALSE,
     \* history of the guard: the requested types it found recently synced
     recent |-> {},
     \* retrySync's attempt number for the current entity type
     attempt |-> 1]

RunIds == DOMAIN runs

\* the store-generated id of a SyncLog row: one per writer and write
EntryId(f, kind) == <<f.origin, f.inv, f.tenant, f.ti, kind>>
CurType(f) == f.types[f.ti]

\* the frame at the start of the entity type number i (typeStartTime = Date.now())
BeginType(f, i, time) ==
    [f EXCEPT !.ti = i, !.typeStart = time,
              !.pc = IF f.types[i] = "analytics" THEN "log"
                     ELSE IF f.force THEN "reset" ELSE "cursor",
              !.cursor = NoNum, !.fetched = 0, !.pageInfo = 0, !.more = TRUE,
              !.processed = 0, !.err = Null, !.attempt = 1,
              !.pageCount = 0, !.sawShort = FALSE, !.afterShort = 0,
              !.fetchFailed = FALSE, !.wrote = {},
              !.expectT1 = NoNum, !.expectKept = FALSE]

\* syncTenant up to its first entity type: the minimum-interval guard.
\* dbError: the store rejects shouldSync's query, which nothing catches.
RunGuard(r, dbError) ==
    /\ runs[r].pc = "guard"
    /\ LET f == runs[r]
       IN  runs' = [runs EXCEPT ![r] =
              IF f.force THEN BeginType(f, 1, now)
              ELSE IF dbError THEN [f EXCEPT !.pc = "threw", !.err = "store error"]
              ELSE IF ~shouldSync(syncLog, now, f.tenant, f.types)
                   THEN [f EXCEPT !.pc = "skipped",
                                  !.recent = RecentlySynced(syncLog, now, f.tenant, f.types)]
              ELSE [BeginType(f, 1, now) EXCEPT
                       !.recent = RecentlySynced(syncLog, now, f.tenant, f.types)]]
    /\ UNCHANGED <<now, nextId, storeVars, applied, upstream, retry, writers, sched, lastWrite, hookVars>>

\* forceSync*: resetSyncTime before the sync proper
RunReset(r) ==
    /\ runs[r].pc = "reset"
    /\ syncLog' = resetSyncTime(syncLog, runs[r].tenant, CurType(runs[r]))
    /\ runs' = [runs EXCEPT ![r].pc = "cursor"]
    /\ UNCHANGED <<now, nextId, tenants, customers, orders, products, orderItems,
                   customEvents, applied, upstream, retry, writers, sched, lastWrite, hookVars>>

\* sync*: `const lastSync = await this.getLastSyncTime(type)`
RunCursor(r) ==
    /\ runs[r].pc = "cursor"
    /\ LET f  == runs[r]
           lw == {w \in lastWrite : w.tenantId = f.tenant /\ w.syncType = CurType(f)}
           w  == CHOOSE x \in lw : TRUE
       IN  runs' = [runs EXCEPT ![r] =
              [f EXCEPT !.pc = "fetch",
                        !.cursor = getLastSyncTime(syncLog, f.tenant, CurType(f)),
                        !.expectT1 = IF lw # {} /\ w.success THEN w.at ELSE NoNum,
                        !.expectKept = lw # {} /\ w.id \in {e.id : e \in syncLog}]]
    /\ UNCHANGED <<now, nextId, storeVars, applied, upstream, retry, writers, sched, lastWrite, hookVars>>

\* one iteration of the page loop: one request to the upstream API, which
\* either fails (caught: hasMorePages = false) or returns the next page
RunFetch(r, ok) ==
    /\ runs[r].pc = "fetch"
    /\ LET f    == runs[r]
           size == PageSize(upstream[f.tenant], f.pageInfo, PageLimit)
           more == ok /\ hasMorePages(size, PageLimit)
           got  == IF ok THEN f.fetched + size ELSE f.fetched
       IN  runs' = [runs EXCEPT ![r] =
              [f EXCEPT !.fetched = got,
                        !.pageInfo = IF more THEN f.pageInfo + size ELSE f.pageInfo,
                        !.more = more,
                        !.pc = IF loopContinues(more, got) THEN "fetch" ELSE "process",
                        !.pageCount = @ + 1,
                        !.afterShort = IF f.sawShort THEN @ + 1 ELSE @,
                        !.sawShort = @ \/ (ok /\ size < PageLimit),
                        !.fetchFailed = @ \/ ~ok]]
    /\ UNCHANGED <<now, nextId, storeVars, applied, upstream, retry, writers, sched, lastWrite, hookVars>>

\* the processing loop: every fetched record is upserted
RunProcess(r) ==
    /\ runs[r].pc = "process"
    /\ LET f  == runs[r]
           ty == CurType(f)
           k  == f.fetched
           st == upsertOrders([orders |-> orders, items |-> orderItems, time |-> now],
                              customers, products, f.tenant, k, nextId)
       IN  /\ customers' = IF ty = "customers"
                           THEN upsertCustomers(customers, f.tenant, k, nextId, now)
                           ELSE customers
           /\ products' = IF ty = "products"
                          THEN upsertProducts(products, f.tenant, k, nextId, now)
                          ELSE products
           /\ orders' = IF ty = "orders" THEN st.orders ELSE orders
           /\ orderItems' = IF ty = "orders" THEN st.items ELSE orderItems
           /\ nextId' = nextId + (IF ty = "orders" THEN 2 * k ELSE k)
           /\ runs' = [runs EXCEPT ![r] = [f EXCEPT !.processed = k, !.pc = "mark"]]
    /\ UNCHANGED <<now, tenants, customEvents, syncLog, applied, upstream, retry, writers, sched,
                   lastWrite, hookVars>>

\* updateLastSyncTime: a successful entry with zero records and duration
RunMark(r) ==
    /\ runs[r].pc = "mark"
    /\ LET f == runs[r]
           e == LogEntry(EntryId(f, "mark"), f.tenant, CurType(f), TRUE, 0, 0, Null, now)
       IN  /\ syncLog' = syncLog \cup {e}
           /\ lastWrite' = NoteWrite(lastWrite, e)
           /\ runs' = [runs EXCEPT ![r] = [f EXCEPT !.pc = "log", !.wrote = @ \cup {e}]]
    /\ UNCHANGED <<now, nextId, tenants, customers, orders, products, orderItems,
                   customEvents, applied, upstream, retry, writers, sched, hookVars>>

\* the SyncResult pushed for the entity type just synced
SyncResult(f, time) ==
    IF f.err = Null
    THEN [success |-> TRUE, tenantId |-> f.tenant, type |-> CurType(f),
          recordsProcessed |-> f.processed, duration |-> time - f.typeStart,
          error |-> Null]
    ELSE [success |-> FALSE, tenantId |-> f.tenant, type |-> CurType(f),
          recordsProcessed |-> 0, duration |-> time - f.typeStart,
          error |-> f.err]

\* after retrySync: results.push(...) and logSyncResult(...)
RunLog(r) ==
    /\ runs[r].pc = "log"
    /\ LET f   == runs[r]
           res == SyncResult(f, now)
           e   == LogEntry(EntryId(f, "log"), f.tenant, CurType(f), res.success,
                           res.recordsProcessed, res.duration, res.error, now)
       IN  /\ syncLog' = syncLog \cup {e}
           /\ lastWrite' = NoteWrite(lastWrite, e)
           /\ runs' = [runs EXCEPT ![r] =
                 [f EXCEPT !.pc = "logged", !.results = Append(@, res),
                           !.wrote = @ \cup {e}]]
    /\ UNCHANGED <<now, nextId, tenants, customers, orders, products, orderItems,
                   customEvents, applied, upstream, retry, writers, sched, hookVars>>

\* the sync method of the current entity type throws before its first request
\* (the outer catch of sync* rethrows): retrySync calls it again, forceSync*
\* included, and after the last attempt syncTenant's catch block takes the
\* error
RunThrow(r) ==
    /\ runs[r].pc = "cursor"
    /\ LET f == runs[r]
       IN  runs' = [runs EXCEPT ![r] =
              IF f.attempt < MaxRetries
              THEN [f EXCEPT !.attempt = @ + 1, !.pc = IF f.force THEN "reset" ELSE "cursor"]
              ELSE [f EXCEPT !.err = "sync error", !.pc = "log"]]
    /\ UNCHANGED <<now, nextId, storeVars, applied, upstream, retry, writers, sched, lastWrite, hookVars>>

\* a type loop that ends at the first failed entity type
typeLoopUntilFailure(f) ==
    f.ti < Len(f.types) /\ f.results[Len(f.results)].success

\* `for (const syncType of syncTypes)`: whether another entity type follows
typeLoopContinues(f) == f.ti < Len(f.types)

\* the end of one iteration of `for (const syncType of syncTypes)`
RunNext(r) ==
    /\ runs[r].pc = "logged"
    /\ LET f == runs[r]
       IN  runs' = [runs EXCEPT ![r] =
              IF typeLoopContinues(f) THEN BeginType(f, f.ti + 1, now)
              ELSE [f EXCEPT !.pc = "done"]]
    /\ UNCHANGED <<now, nextId, storeVars, applied, upstream, retry, writers, sched, lastWrite, hookVars>>

Settled(f) == f.pc \in {"done", "skipped", "threw"}

-----------------------------------------------------------------------------
(* Scheduler: scheduleSync / syncAllTenants, the manual entry point         *)
(* syncTenantById, and cleanupSyncLogs                                      *)

BatchSize == 3

TenantOrder == <<"t1", "t2", "t3", "t4">>

IsSyncable(t) == t \in DOMAIN tenants /\ tenants[t].isActive /\ tenants[t].hasToken

\* prisma.tenant.findMany({where: {isActive: true, shopifyAccessToken: {not: null}}})
ActiveTenants == SelectSeq(TenantOrder, IsSyncable)

SchedRun(t) == <<"sched", t>>
ManualRun(k) == <<"manual", k>>

\* tenants.slice(i, i + batchSize), with i counted from 1
Batch(list, i) == SubSeq(list, i, Min(i + BatchSize - 1, Len(list)))

\* a cron timer fires: scheduleSync(type) -> syncAllTenants({types: [type]})
SchedStart(ty) ==
    /\ sched.pc \in {"idle", "done"}
    /\ applied.scheds < MaxSchedRuns
    /\ sched' = [IdleSched EXCEPT !.pc = IF ActiveTenants = <<>> THEN "done" ELSE "launch",
                                  !.type = ty, !.list = ActiveTenants]
    /\ applied' = [applied EXCEPT !.scheds = @ + 1]
    /\ UNCHANGED <<now, nextId, storeVars, upstream, retry, writers, runs, lastWrite, hookVars>>

\* batch.map(tenant => syncTenant(tenant, options)): the batch's frames start
SchedLaunch ==
    /\ sched.pc = "launch"
    /\ LET b == Batch(sched.list, sched.i)
           new == {SchedRun(b[k]) : k \in 1..Len(b)}
       IN  runs' = [x \in DOMAIN runs \cup new |->
                      IF x \in new THEN NewFrame(x[2], <<sched.type>>, FALSE, "sched", applied.scheds, now)
                      ELSE runs[x]]
    /\ sched' = [sched EXCEPT !.pc = "wait"]
    /\ UNCHANGED <<now, nextId, storeVars, applied, upstream, retry, writers, lastWrite, hookVars>>

\* the SyncResult entries one settled promise of the batch contributes
SettledResults(f) ==
    IF f.pc = "threw"
    THEN << [success |-> FALSE, tenantId |-> f.tenant, type |-> "batch_error",
             recordsProcessed |-> 0, duration |-> 0, error |-> f.err] >>
    ELSE f.results

RECURSIVE BatchResults(_, _)
BatchResults(b, k) ==
    IF k = 0 THEN <<>>
    ELSE BatchResults(b, k - 1) \o SettledResults(runs[SchedRun(b[k])])

\* syncAllTenants with Promise.all in place of Promise.allSettled: a rejection
\* ends the run
nextBatchUnlessRejected(b, i, len) ==
    i + BatchSize <= len /\ \A k \in 1..Len(b) : runs[SchedRun(b[k])].pc # "threw"

\* whether syncAllTenants goes on to the batch after the one just settled
nextBatchRuns(b, i, len) == i + BatchSize <= len

\* Promise.allSettled resolves: collect the batch's results, go on to the next
\* batch or return
SchedCollect ==
    /\ sched.pc = "wait"
    /\ LET b   == Batch(sched.list, sched.i)
           ids == {SchedRun(b[k]) : k \in 1..Len(b)}
       IN  /\ \A x \in ids : Settled(runs[x])
           /\ sched' = [sched EXCEPT
                 !.results = @ \o BatchResults(b, Len(b)),
                 !.outcome = [t \in DOMAIN @ \cup {b[k] : k \in 1..Len(b)} |->
                                IF SchedRun(t) \in ids
                                THEN [how |-> runs[SchedRun(t)].pc,
                                      wrote |-> runs[SchedRun(t)].wrote]
                                ELSE @[t]],
                 !.i = @ + BatchSize,
                 !.pc = IF nextBatchRuns(b, sched.i, Len(sched.list))
                        THEN "launch" ELSE "done"]
           /\ runs' = [x \in DOMAIN runs \ ids |-> runs[x]]
    /\ UNCHANGED <<now, nextId, storeVars, applied, upstream, retry, writers, lastWrite, hookVars>>

\* syncTenantById: the manual trigger always runs syncTenant with force: true
ManualSync(t, types) ==
    /\ applied.manuals < MaxManual
    /\ IsSyncable(t)
    /\ runs' = [x \in DOMAIN runs \cup {ManualRun(applied.manuals + 1)} |->
                  IF x \in DOMAIN runs THEN runs[x]
                  ELSE NewFrame(t, types, TRUE, "manual", applied.manuals + 1, now)]
    /\ applied' = [applied EXCEPT !.manuals = @ + 1]
    /\ UNCHANGED <<now, nextId, storeVars, upstream, retry, writers, sched, lastWrite, hookVars>>

\* POST /api/sync answers after 4 minutes at the latest
SyncTimeout == 8

\* the syncType field of the response of POST /api/sync
ReportedSyncType(force, historical) ==
    IF historical THEN "historical" ELSE IF force THEN "force" ELSE "incremental"

\* the status POST /api/sync answers with before any sync starts, 0 if it
\* starts one
PostRefusal(t) ==
    IF t \notin DOMAIN tenants THEN 404
    ELSE IF ~tenants[t].hasToken THEN 400
    ELSE IF ~tenants[t].isActive THEN 500
    ELSE 0

\* POST /api/sync {tenantId, types, force, historical} up to the call of
\* syncTenantById, which runs syncTenant with force: true whatever was asked
PostSync(t, types, force, historical) ==
    /\ applied.manuals < MaxManual
    /\ LET k == applied.manuals + 1
       IN  /\ runs' = IF PostRefusal(t) # 0 THEN runs
                      ELSE [x \in DOMAIN runs \cup {ManualRun(k)} |->
                              IF x \in DOMAIN runs THEN runs[x]
                              ELSE NewFrame(t, types, TRUE, "manual", k, now)]
           /\ applied' = [applied EXCEPT
                 !.manuals = k,
                 !.posts = @ \cup {[k |-> k, tenant |-> t, types |-> types,
                                    force |-> force, historical |-> historical,
                                    at |-> now, status |-> PostRefusal(t),
                                    results |-> <<>>, syncType |-> Null]}]
    /\ UNCHANGED <<now, nextId, storeVars, upstream, retry, writers, sched, lastWrite, hookVars>>

\* the posts still waiting on Promise.race
Pending == {p \in applied.posts : p.status = 0}

\* syncTenantById resolves first: 200 with the results
PostRespond ==
    \E p \in Pending :
        /\ Settled(runs[ManualRun(p.k)])
        /\ applied' = [applied EXCEPT !.posts = (@ \ {p}) \cup
              {[p EXCEPT !.status = 200, !.results = runs[ManualRun(p.k)].results,
                         !.syncType = ReportedSyncType(p.force, p.historical)]}]
        /\ UNCHANGED <<now, nextId, storeVars, syncVars, hookVars>>

\* the timeout promise rejects first: 500, and nothing is said to the sync
PostTimeout ==
    \E p \in Pending :
        /\ now - p.at >= SyncTimeout
        /\ applied' = [applied EXCEPT !.posts = (@ \ {p}) \cup {[p EXCEPT !.status = 500]}]
        /\ UNCHANGED <<now, nextId, storeVars, syncVars, hookVars>>

\* syncTenant(tenant, {types}) without force, as syncAllTenants calls it for
\* each tenant of a batch
CallRun(k) == <<"call", k>>

SyncTenant(t, types) ==
    /\ applied.calls < MaxCalls
    /\ IsSyncable(t)
    /\ runs' = [x \in DOMAIN runs \cup {CallRun(applied.calls + 1)} |->
                  IF x \in DOMAIN runs THEN runs[x]
                  ELSE NewFrame(t, types, FALSE, "call", applied.calls + 1, now)]
    /\ applied' = [applied EXCEPT !.calls = @ + 1]
    /\ UNCHANGED <<now, nextId, storeVars, upstream, retry, writers, sched, lastWrite, hookVars>>

\* the daily cleanup timer
CleanupSyncLogs ==
    /\ syncLog' = cleanedLog(syncLog, now)
    /\ UNCHANGED <<now, nextId, tenants, customers, orders, products, orderItems,
                   customEvents, applied, syncVars, hookVars>>

\* one step of one frame; DbErrors and FetchOks are the outcomes the store's
\* query and the upstream requests may have
RunStep(DbErrors, FetchOks) ==
    \E r \in RunIds :
        \/ \E dbError \in DbErrors : RunGuard(r, dbError)
        \/ RunReset(r)
        \/ RunCursor(r)
        \/ \E ok \in FetchOks : RunFetch(r, ok)
        \/ RunProcess(r)
        \/ RunMark(r)
        \/ RunLog(r)
        \/ RunNext(r)

-----------------------------------------------------------------------------
(* SpecRun: scheduled syncs of one tenant, one after the other              *)

InitRun ==
    /\ InitStore
    /\ InitIdle
    /\ tenants = [t \in {"t1"} |-> TenantRow(TRUE, TRUE, Null)]
    /\ upstream \in [TenantIds -> 0..MaxUpstream]
    /\ upstream["t2"] = 0

NextRun ==
    \/ \E ty \in {"orders", "customers", "products", "analytics"} : SchedStart(ty)
    \/ SchedLaunch
    \/ SchedCollect
    \/ RunStep(BOOLEAN, BOOLEAN)
    \/ Tick(1)

SpecRun == InitRun /\ [][NextRun]_vars

-----------------------------------------------------------------------------
(* SpecSync: one tenant, scheduled syncs one after the other, a manual      *)
(* (forced) sync and the cleanup running beside them; the upstream and the  *)
(* store answer every request                                              *)

ManualTypes == {<<"orders">>}

InitSync ==
    /\ InitStore
    /\ InitIdle
    /\ tenants = [t \in {"t1"} |-> TenantRow(TRUE, TRUE, Null)]
    /\ upstream = [t \in TenantIds |-> IF t = "t1" THEN 1 ELSE 0]

NextSync ==
    \/ SchedStart("orders")
    \/ SchedLaunch
    \/ SchedCollect
    \/ RunStep({FALSE}, {TRUE})
    \/ \E t \in DOMAIN tenants, types \in ManualTypes : ManualSync(t, types)
    \/ CleanupSyncLogs
    \/ \E d \in TickSteps : Tick(d)

SpecSync == InitSync /\ [][NextSync]_vars

-----------------------------------------------------------------------------
(* SpecBatch: one scheduled run after the other over four tenants, some of  *)
(* which were synced a moment ago                                           *)

InitBatch ==
    /\ InitData
    /\ InitIdle
    /\ tenants = [t \in {"t1", "t2", "t3", "t4"} |-> TenantRow(TRUE, TRUE, Null)]
    /\ upstream = [t \in {"t1", "t2", "t3", "t4"} |-> IF t = "t4" THEN 1 ELSE 0]
    /\ \E recent \in SUBSET {"t2", "t4"} :
          syncLog = {LogEntry(<<"init", t>>, t, "orders", TRUE, 0, 0, Null, 99) :
                       t \in recent}

NextBatch ==
    \/ \E ty \in {"orders", "analytics"} : SchedStart(ty)
    \/ SchedLaunch
    \/ SchedCollect
    \/ RunStep(BOOLEAN, {TRUE})

SpecBatch == InitBatch /\ [][NextBatch]_vars

-----------------------------------------------------------------------------
(* SpecGuard: syncTenant called for one tenant without force, with one or   *)
(* several entity types, beside a manual (forced) sync; some types were     *)
(* synced half a minute ago                                                 *)

GuardTypes == {<<"orders">>, <<"customers">>, <<"orders", "customers">>}

InitGuard ==
    /\ InitData
    /\ InitIdle
    /\ tenants = [t \in {"t1"} |-> TenantRow(TRUE, TRUE, Null)]
    /\ upstream = [t \in TenantIds |-> IF t = "t1" THEN 1 ELSE 0]
    /\ \E recent \in SUBSET {"orders", "customers"} :
          syncLog = {LogEntry(<<"init", ty>>, "t1", ty, TRUE, 0, 0, Null, 99) :
                       ty \in recent}

NextGuard ==
    \/ \E types \in GuardTypes : SyncTenant("t1", types)
    \/ \E types \in ManualTypes : ManualSync("t1", types)
    \/ RunStep({FALSE}, {TRUE})
    \/ \E d \in {1, MinSyncInterval} : Tick(d)

SpecGuard == InitGuard /\ [][NextGuard]_vars

-----------------------------------------------------------------------------
(* SpecManual: POST /api/sync for one tenant, asked with and without force  *)
(* or historical; a scheduled sync may have recorded its success half a     *)
(* minute before; the upstream and the store answer every request, and a    *)
(* sync method may throw                                                    *)

PostTypes == {<<"orders">>, <<"customers", "orders">>}

InitManual ==
    /\ InitData
    /\ runs = NoRuns /\ retry = NoRetry /\ writers = {} /\ sched = IdleSched
    /\ requestCounts = {} /\ reqs = {} /\ timers = {}
    /\ tenants = [t \in {"t1"} |-> TenantRow(TRUE, TRUE, Null)]
    /\ upstream = [t \in TenantIds |-> IF t = "t1" THEN 1 ELSE 0]
    /\ \E synced \in SUBSET {"orders", "customers"} :
          /\ syncLog = {LogEntry(<<"init", ty>>, "t1", ty, TRUE, 1, 0, Null, 99) :
                          ty \in synced}
          /\ lastWrite = {[tenantId |-> "t1", syncType |-> ty, id |-> <<"init", ty>>,
                           success |-> TRUE, at |-> 99] : ty \in synced}

NextManual ==
    \/ RunStep({FALSE}, {TRUE})
    \/ \E types \in PostTypes, force \in BOOLEAN, historical \in BOOLEAN :
          PostSync("t1", types, force, historical)
    \/ \E r \in RunIds : RunThrow(r)
    \/ PostRespond
    \/ PostTimeout
    \/ \E d \in {1, SyncTimeout} : Tick(d)

SpecManual == InitManual /\ [][NextManual]_vars

-----------------------------------------------------------------------------
(* Properties of the sync orchestrator and the scheduler *)

Frames == {runs[r] : r \in RunIds}

\* the frame syncTenantById started for a post
FrameOf(p) == runs[ManualRun(p.k)]

\* the frame has read its cursor for the current entity type
CursorRead(f) == f.pc \in {"fetch", "process", "mark", "log", "logged"}
                    /\ CurType(f) # "analytics"

(***************************************************************************)
(* C14: a manual sync asked without force and without historical runs      *)
(* incrementally: where the last SyncLog entry written for the (tenant,    *)
(* type) was successful, that entry is still in the log when the sync      *)
(* reads its cursor and its time is the cursor; the response says          *)
(* 'incremental'.                                                          *)
(***************************************************************************)
C14_ManualIsIncremental ==
    \A p \in applied.posts :
        ~p.force /\ ~p.historical /\ p.status \in {0, 200} =>
            /\ p.status = 200 => p.syncType = "incremental"
            /\ CursorRead(FrameOf(p)) /\ FrameOf(p).expectT1 # NoNum =>
                  FrameOf(p).expectKept /\ FrameOf(p).cursor = FrameOf(p).expectT1

(***************************************************************************)
(* C22: a sync of (tenant, entity type) writes a successful SyncLog entry, *)
(* which the next run reads as its cursor, only if every upstream record   *)
(* of the type inside the run's fetch window was fetched and upserted.     *)
(***************************************************************************)
C22_SuccessMeansComplete ==
    \A f \in Frames : \A e \in f.wrote :
        e.success /\ e.syncType # "analytics" =>
            f.fetched = upstream[f.tenant] /\ f.processed = f.fetched

(***************************************************************************)
(* C25: the SyncLog is append-only history: a step removes an entry only   *)
(* if it is the scheduled retention cleanup and the entry is older than    *)
(* the retention window; scheduled, manual and forced syncs only add.      *)
(***************************************************************************)
C25_SyncLogAppendOnly ==
    [][\A e \in syncLog :
          e \notin syncLog' => runs' = runs /\ e.createdAt < now - RetentionWindow]_vars


\* the step from the unprimed to the primed state is one of cleanupSyncLogs
\* that deleted something: entries are gone and no sync has moved
CleanupStep == syncLog' # syncLog /\ syncLog' \subseteq syncLog /\ runs' = runs

(***************************************************************************)
(* C20: the cleanup of old SyncLog entries never changes the cursor the    *)
(* next incremental sync of a (tenant, entity type) would read; a cursor   *)
(* that is present is never made absent.                                   *)
(***************************************************************************)
C20_CleanupKeepsCursor ==
    [][CleanupStep =>
          \A t \in DOMAIN tenants, ty \in {"orders", "customers", "products"} :
              getLastSyncTime(syncLog', t, ty) = getLastSyncTime(syncLog, t, ty)]_vars

TimedOut == {p \in applied.posts : p.status = 500 /\ ManualRun(p.k) \in DOMAIN runs}

(***************************************************************************)
(* C15: once the 4-minute bound of a manual sync has expired and the       *)
(* request has been answered, the underlying sync is cancelled: it takes   *)
(* no further step, so it fetches nothing and writes nothing any more.     *)
(***************************************************************************)
C15_TimeoutCancels ==
    [][\A p \in TimedOut : runs'[ManualRun(p.k)] = runs[ManualRun(p.k)]]_vars

\* the frame has fetched or logged for its current entity type
Worked(f) == f.pageCount > 0 \/ f.wrote # {}

\* a frame started without force does nothing for a type its guard found
\* recently synced; a forced frame is never skipped
GuardHolds(fs) ==
    \A f \in fs :
        IF f.force THEN f.pc # "skipped"
        ELSE f.pc \notin {"guard", "skipped", "threw", "done"} /\ CurType(f) \in f.recent
                => ~Worked(f)

C13_GuardOneType == GuardHolds({f \in Frames : Len(f.types) = 1})

LastResult(f) == f.results[Len(f.results)]

\* the frame has selected the fetch window of its current entity type
HasCursor(f) ==
    f.pc \in {"fetch", "process", "mark", "log", "logged"} /\ CurType(f) # "analytics"

\* the frame has left the page loop of its current entity type
FetchDone(f) ==
    f.pc \in {"process", "mark", "log", "logged"} /\ CurType(f) # "analytics"

(***************************************************************************)
(* C2 as stated: when the SyncLog entry appended last for (tenant, type)   *)
(* is a successful one, written at T1, a non-forced sync of that           *)
(* (tenant, type) uses T1 as the start of its fetch window.                *)
(***************************************************************************)
C2_CursorIsLastSuccess ==
    \A f \in Frames :
        (HasCursor(f) /\ ~f.force /\ f.expectT1 # NoNum) => f.cursor = f.expectT1

(***************************************************************************)
(* C2 while the entry is kept: when the SyncLog entry appended last for    *)
(* (tenant, type) is a successful one, written at T1, and that entry is    *)
(* still in the log (no forced sync's reset and no cleanup has deleted     *)
(* it), a non-forced sync of that (tenant, type) uses T1 as the start of   *)
(* its fetch window.                                                       *)
(***************************************************************************)
C2_CursorIsLastKeptSuccess ==
    \A f \in Frames :
        (HasCursor(f) /\ ~f.force /\ f.expectT1 # NoNum /\ f.expectKept)
            => f.cursor = f.expectT1

\* a non-forced sync reads the newest of two successful entries of different age
C2_Witness ==
    \E f \in Frames :
        /\ HasCursor(f) /\ ~f.force /\ f.expectKept
        /\ f.cursor # NoNum /\ f.cursor = f.expectT1
        /\ \E e \in syncLog :
              /\ e.tenantId = f.tenant /\ e.syncType = CurType(f) /\ e.success
              /\ e.createdAt < f.cursor

(***************************************************************************)
(* C3: a sync of (tenant, type) in which a page fetch failed ends as a     *)
(* failure: it appends a SyncLog entry with success = false that carries   *)
(* the error, its result entry has success = false, and it appends no      *)
(* entry with success = true.                                              *)
(***************************************************************************)
C3_FetchFailureFailsRun ==
    \A f \in Frames :
        (f.pc = "logged" /\ f.fetchFailed) =>
            /\ \E e \in f.wrote : ~e.success /\ e.error # Null
            /\ ~LastResult(f).success
            /\ \A e \in f.wrote : ~e.success

Ceil(n, p) == (n + p - 1) \div p

(***************************************************************************)
(* C8 as stated: with N upstream records in the window (N below the safety *)
(* cap) and page size P, a sync whose requests all succeed issues exactly  *)
(* ceil(N/P) page requests, and none after the first page shorter than P.  *)
(***************************************************************************)
C8_CeilPages ==
    \A f \in Frames :
        FetchDone(f) =>
            /\ f.afterShort = 0
            /\ (~f.fetchFailed /\ upstream[f.tenant] < SafetyLimit)
                  => f.pageCount = Ceil(upstream[f.tenant], PageLimit)

(***************************************************************************)
(* C8 as amended: such a sync issues exactly floor(N/P) + 1 page requests  *)
(* (ceil(N/P) unless N is 0 or a multiple of P, where the loop needs one   *)
(* more, empty, page to see the end), and no request after the first page  *)
(* shorter than P; a failed request is the last one of the sync.           *)
(***************************************************************************)
C8_PagesFetched ==
    \A f \in Frames :
        FetchDone(f) =>
            /\ f.afterShort = 0
            /\ (~f.fetchFailed /\ upstream[f.tenant] < SafetyLimit)
                  => f.pageCount = (upstream[f.tenant] \div PageLimit) + 1
            /\ f.fetchFailed => f.pageCount <= (upstream[f.tenant] \div PageLimit) + 1

\* a window of exactly one full page: the full page, then the empty one
C8_Witness ==
    \E f \in Frames :
        /\ FetchDone(f) /\ ~f.fetchFailed
        /\ upstream[f.tenant] = PageLimit /\ upstream[f.tenant] < SafetyLimit
        /\ f.pageCount = 2 /\ f.fetched = PageLimit

(***************************************************************************)
(* C9: a sync run of (tenant, type) that the minimum-interval guard did    *)
(* not skip has appended, when it completes, exactly one SyncLog entry for *)
(* that (tenant, type), and the entry carries the run's success flag,      *)
(* records-processed count and duration.                                   *)
(***************************************************************************)
C9_OneLogEntryPerRun ==
    \A f \in Frames :
        f.pc = "logged" =>
            /\ Cardinality(f.wrote) = 1
            /\ \A e \in f.wrote :
                  /\ e.success = LastResult(f).success
                  /\ e.recordsProcessed = LastResult(f).recordsProcessed
                  /\ e.duration = LastResult(f).duration

ResultsOf(t) == SelectSeq(sched.results, LAMBDA x : x.tenantId = t)

ListSet(list) == {list[k] : k \in 1..Len(list)}

-----------------------------------------------------------------------------
(* Webhook route: POST /api/webhooks/shopify.  One request is one step: the *)
(* stages run in the order of the code and the first failing one answers.   *)
(* Time is in half minutes, so the 60 s rate-limit window and the 60 s      *)
(* abandonment delay are both 2.                                            *)

MaxHookRequests == 2    \* webhook requests in one behaviour of SpecHook
MaxCartRequests == 3    \* webhook requests in one behaviour of SpecCart

RateLimitWindow == 2
RateLimitMax == 100
AbandonDelay == 2

\* tenants.shopifyDomain (unique)
DomainOf(t) ==
    CASE t = "t1" -> "t1.myshopify.com"
      [] t = "t2" -> "t2.myshopify.com"
      [] t = "t3" -> "t3.myshopify.com"
      [] OTHER -> "t4.myshopify.com"

\* prisma.tenant.findUnique({where: {shopifyDomain}})
FindTenant(d) == {t \in DOMAIN tenants : DomainOf(t) = d}

\* the verdict of checkRateLimit(domain) at `time`, and the map it leaves
checkRateLimit(counts, domain, time) ==
    LET cur == {c \in counts : c.key = domain}
    IN  IF cur = {} \/ \A c \in cur : time > c.resetTime
        THEN [ok |-> TRUE,
              counts |-> (counts \ cur) \cup
                  {[key |-> domain, count |-> 1, resetTime |-> time + RateLimitWindow]}]
        ELSE IF \E c \in cur : c.count >= RateLimitMax
        THEN [ok |-> FALSE, counts |-> counts]
        ELSE [ok |-> TRUE,
              counts |-> {IF c \in cur THEN [c EXCEPT !.count = @ + 1] ELSE c :
                            c \in counts}]

(* Signatures.  HMAC-SHA256 is taken as an injective function of (body,     *)
(* secret).  A header value is one of the texts a sender can put there for  *)
(* a digest: its standard base64 text, its URL-safe unpadded base64 text,   *)
(* the first 22 characters of the base64 text, or its hex text.             *)
HmacSha256(body, secret) == <<body, secret>>

SigHeader(enc, body, secret) == [enc |-> enc, mac |-> HmacSha256(body, secret)]

NoHeader == [enc |-> "absent", mac |-> <<Null, Null>>]

\* hmac.digest('base64')
DigestBase64(body, secret) == SigHeader("base64", body, secret)

\* Buffer.from(text, 'base64'): accepts both alphabets, padding optional; a
\* hex text is base64 text too and decodes to 48 other bytes
BufferFromBase64(s) ==
    CASE s.enc \in {"base64", "base64url"} -> [len |-> 32, of |-> "mac", mac |-> s.mac]
      [] s.enc = "truncated" -> [len |-> 16, of |-> "prefix", mac |-> s.mac]
      [] OTHER -> [len |-> 48, of |-> "hex", mac |-> s.mac]

\* crypto.timingSafeEqual: throws on buffers of different length
timingSafeEqual(a, b) ==
    IF a.len # b.len THEN "throws" ELSE IF a = b THEN "true" ELSE "false"

\* verifyWebhook with a catch block that answers true
verifyWebhookCatchTrue(body, signature, secret) ==
    timingSafeEqual(BufferFromBase64(signature),
                    BufferFromBase64(DigestBase64(body, secret))) # "false"

verifyWebhook(body, signature, secret) ==
    timingSafeEqual(BufferFromBase64(signature),
                    BufferFromBase64(DigestBase64(body, secret))) = "true"

\* the entries logged under the name of the topic's resource: `topic.split('/')[0]`
WebhookSyncTypeByResource(topic) ==
    IF topic \in {"customers/create", "customers/update"} THEN "customers"
    ELSE IF topic \in {"orders/create", "orders/updated", "orders/paid",
                       "orders/cancelled"} THEN "orders"
    ELSE IF topic \in {"products/create", "products/update"} THEN "products"
    ELSE IF topic \in {"carts/create", "carts/update"} THEN "carts"
    ELSE IF topic \in {"checkouts/create", "checkouts/update"} THEN "checkouts"
    ELSE "other"

\* `webhook_${topic.replace('/', '_')}`
WebhookSyncType(topic) ==
    CASE topic = "customers/create" -> "webhook_customers_create"
      [] topic = "customers/update" -> "webhook_customers_update"
      [] topic = "orders/create" -> "webhook_orders_create"
      [] topic = "orders/updated" -> "webhook_orders_updated"
      [] topic = "orders/paid" -> "webhook_orders_paid"
      [] topic = "orders/cancelled" -> "webhook_orders_cancelled"
      [] topic = "products/create" -> "webhook_products_create"
      [] topic = "products/update" -> "webhook_products_update"
      [] topic = "carts/create" -> "webhook_carts_create"
      [] topic = "carts/update" -> "webhook_carts_update"
      [] topic = "checkouts/create" -> "webhook_checkouts_create"
      [] topic = "checkouts/update" -> "webhook_checkouts_update"
      [] topic = "app/uninstalled" -> "webhook_app_uninstalled"
      [] topic = "orders" -> "webhook_orders"
      [] OTHER -> "webhook_other"

\* the SyncLog row logWebhookRequest creates for request number n
logWebhookRequest(n, t, topic, success, processingTime, error, time) ==
    LogEntry(<<"webhook", n, t, 1, "hook">>, t, WebhookSyncType(topic), success,
             IF success THEN 1 ELSE 0, processingTime, error, time)

(* Request bodies: texts, and what JSON.parse makes of them *)
Customer7 == CHOOSE p \in CustomerPayloads : p.email = "a@x"
Order1 == CHOOSE p \in OrderPayloads : p.customer = 7 /\ p.financial_status = "pending"
Product2 == CHOOSE p \in ProductPayloads : p.status = "active"
Cart5 == [id |-> 5, token |-> "c5", customer_id |-> 7, total_price |-> "25.00",
          line_items |-> <<LineItemsA>>, updated_at |-> 100]
Checkout9 == [id |-> 9, token |-> "k9", customer_id |-> 7, total_price |-> "25.00",
              line_items |-> <<LineItemsA>>, updated_at |-> 100]
\* documents of a guest: an order without a customer object, a cart and a
\* checkout without customer_id
GuestOrder == CHOOSE p \in OrderPayloads : p.customer = NoNum
GuestCart == [id |-> 6, token |-> "c6", total_price |-> "25.00",
              line_items |-> <<LineItemsA>>, updated_at |-> 100]
GuestCheckout == [id |-> 4, token |-> "k4", total_price |-> "25.00",
                  line_items |-> <<LineItemsA>>, updated_at |-> 100]
EmptyDoc == [x \in {} |-> 0]

JsonParse(body) ==
    CASE body = "customer7" -> [ok |-> TRUE, value |-> Customer7]
      [] body = "order1" -> [ok |-> TRUE, value |-> Order1]
      [] body = "product2" -> [ok |-> TRUE, value |-> Product2]
      [] body = "cart5" -> [ok |-> TRUE, value |-> Cart5]
      [] body = "checkout9" -> [ok |-> TRUE, value |-> Checkout9]
      [] body = "order2" -> [ok |-> TRUE, value |-> GuestOrder]
      [] body = "cart6" -> [ok |-> TRUE, value |-> GuestCart]
      [] body = "checkout4" -> [ok |-> TRUE, value |-> GuestCheckout]
      [] body = "{}" -> [ok |-> TRUE, value |-> EmptyDoc]
      [] OTHER -> [ok |-> FALSE, value |-> EmptyDoc]

\* doc.name, or d where the property is undefined
Field(doc, name, d) == IF name \in DOMAIN doc THEN doc[name] ELSE d

CustomerTopics == {"customers/create", "customers/update"}
OrderTopics == {"orders/create", "orders/updated", "orders/paid", "orders/cancelled"}
ProductTopics == {"products/create", "products/update"}
CartTopics == {"carts/create", "carts/update"}
CheckoutTopics == {"checkouts/create", "checkouts/update"}

\* the message of the TypeError of `undefined.toString()`
NoIdError == "Cannot read properties of undefined (reading 'toString')"

\* the tables, timers and next row id as a handler finds them
StoreNow ==
    [threw |-> FALSE, error |-> Null, customers |-> customers, orders |-> orders,
     orderItems |-> orderItems, products |-> products,
     customEvents |-> customEvents, timers |-> timers, nextId |-> nextId]

Threw(st, msg) == [st EXCEPT !.threw = TRUE, !.error = msg]

handleCustomerWebhook(st, doc, t) ==
    IF Field(doc, "id", NoNum) = NoNum THEN Threw(st, NoIdError)
    ELSE [st EXCEPT !.customers = upsertCustomer(st.customers, t, doc, st.nextId, now),
                    !.nextId = @ + 1]

handleProductWebhook(st, doc, t) ==
    IF Field(doc, "id", NoNum) = NoNum THEN Threw(st, NoIdError)
    ELSE [st EXCEPT !.products = upsertProduct(st.products, t, doc, st.nextId, now),
                    !.nextId = @ + 1]

\* history: a waiting abandonment check learns that an order of its cart's
\* customer was created
NoteOrder(tms, t, doc, isNew) ==
    {IF /\ isNew /\ k.pc = "wait" /\ k.tenantId = t
        /\ Field(k.cart, "customer_id", NoNum) # NoNum
        /\ Field(k.cart, "customer_id", NoNum) = doc.customer
     THEN [k EXCEPT !.orderSeen = TRUE] ELSE k : k \in tms}

handleOrderWebhook(st, doc, t) ==
    IF Field(doc, "id", NoNum) = NoNum THEN Threw(st, NoIdError)
    ELSE LET rows == upsertOrderRow(st.orders, st.customers, t, doc, st.nextId, now)
         IN  [st EXCEPT
                !.orders = rows,
                !.orderItems = replaceOrderItems(st.orderItems, st.products, t, doc,
                                  FindId(rows, t, ToStr(doc.id)), st.nextId + 1),
                !.nextId = @ + 1 + LineItemCount(doc),
                !.timers = NoteOrder(@, t, doc, ByKey(st.orders, t, ToStr(doc.id)) = {})]

\* prisma.customer.findUnique by (shopifyId, tenantId), then customer?.id || null
getCustomerId(custRows, sid, t) == FindId(custRows, t, sid)

\* `let customerId = null; if (x.customer_id) customerId = await getCustomerId(...)`
EventCustomer(custRows, doc, t) ==
    IF Field(doc, "customer_id", NoNum) \in {NoNum, 0} THEN NoRef
    ELSE getCustomerId(custRows, ToStr(doc.customer_id), t)

CustomEvent(id, t, customerId, eventType, cartId, checkoutId, time) ==
    [id |-> id, tenantId |-> t, customerId |-> customerId, eventType |-> eventType,
     cartId |-> cartId, checkoutId |-> checkoutId, createdAt |-> time]

\* cart.line_items?.length > 0
HasLineItems(doc) ==
    Field(doc, "line_items", None) # None /\ Len(doc.line_items[1]) > 0

handleCartWebhook(st, doc, t, topic) ==
    LET customerId == EventCustomer(st.customers, doc, t)
        ev == CustomEvent(st.nextId, t, customerId,
                          IF topic = "carts/create" THEN "cart_created" ELSE "cart_updated",
                          Field(doc, "id", NoNum), NoNum, now)
        timer == [id |-> st.nextId, cart |-> doc, tenantId |-> t,
                  customerId |-> customerId, due |-> now + AbandonDelay,
                  pc |-> "wait", orderSeen |-> FALSE, created |-> FALSE]
    IN  [st EXCEPT !.customEvents = @ \cup {ev},
                   !.nextId = @ + 1,
                   !.timers = IF topic = "carts/update" /\ HasLineItems(doc)
                              THEN @ \cup {timer} ELSE @]

handleCheckoutWebhook(st, doc, t, topic) ==
    LET customerId == EventCustomer(st.customers, doc, t)
        ev == CustomEvent(st.nextId, t, customerId,
                          IF topic = "checkouts/create" THEN "checkout_started"
                          ELSE "checkout_updated",
                          NoNum, Field(doc, "id", NoNum), now)
    IN  [st EXCEPT !.customEvents = @ \cup {ev}, !.nextId = @ + 1]

\* the switch of POST
Dispatch(st, topic, doc, t) ==
    IF topic \in CustomerTopics THEN handleCustomerWebhook(st, doc, t)
    ELSE IF topic \in OrderTopics THEN handleOrderWebhook(st, doc, t)
    ELSE IF topic \in ProductTopics THEN handleProductWebhook(st, doc, t)
    ELSE IF topic \in CartTopics THEN handleCartWebhook(st, doc, t, topic)
    ELSE IF topic \in CheckoutTopics THEN handleCheckoutWebhook(st, doc, t, topic)
    ELSE st

\* POST without the inner try: the handler's error reaches the outer catch block
AfterDispatchRethrow(st) ==
    IF st.threw
    THEN [status |-> 500, stage |-> "dispatch", success |-> FALSE, error |-> st.error]
    ELSE [status |-> 200, stage |-> "done", success |-> TRUE, error |-> Null]

\* the answer and the log entry after the switch: the inner try's last lines,
\* or its catch (handlerError) block
AfterDispatch(st) ==
    IF st.threw
    THEN [status |-> 200, stage |-> "dispatch", success |-> FALSE, error |-> st.error]
    ELSE [status |-> 200, stage |-> "done", success |-> TRUE, error |-> Null]

\* an empty-body check that never fires
EmptyBodyNever(body) == FALSE

\* !body || body.length === 0
EmptyBody(body) == body = ""

\* the stage that answers request q before the switch, if one does, with its
\* status and the error it logs
Admission(q) ==
    IF q.signature = NoHeader \/ q.topic = Null \/ q.shopDomain = Null
    THEN [stage |-> "headers", status |-> 400, log |-> Null]
    ELSE IF ~checkRateLimit(requestCounts, q.shopDomain, now).ok
    THEN [stage |-> "rateLimit", status |-> 429, log |-> Null]
    ELSE IF EmptyBody(q.body)
    THEN [stage |-> "body", status |-> 400, log |-> Null]
    ELSE IF FindTenant(q.shopDomain) = {}
    THEN [stage |-> "tenant", status |-> 404, log |-> Null]
    ELSE LET tenant == tenants[CHOOSE t \in FindTenant(q.shopDomain) : TRUE]
         IN  IF /\ tenant.webhookSecret # Null
                /\ ~verifyWebhook(q.body, q.signature, tenant.webhookSecret)
             THEN [stage |-> "signature", status |-> 401, log |-> "Invalid signature"]
             ELSE IF ~JsonParse(q.body).ok
             THEN [stage |-> "parse", status |-> 400, log |-> "Invalid JSON payload"]
             ELSE [stage |-> "dispatch", status |-> 200, log |-> Null]

\* history: one more request of shop `key` passed the rate-limit stage at `time`
NotePass(ps, key, time) ==
    LET old == {x \in ps : x.key = key /\ x.at = time}
    IN  (ps \ old) \cup
        {[key |-> key, at |-> time,
          n |-> 1 + (IF old = {} THEN 0 ELSE (CHOOSE x \in old : TRUE).n)]}

\* one webhook request, from the first header read to the response
POST(q, max) ==
    /\ applied.reqs < max
    /\ \E adm \in {Admission(q)} :
       LET n == applied.reqs + 1
           t == IF adm.stage \in {"headers", "rateLimit", "body", "tenant"} THEN Null
                ELSE CHOOSE x \in FindTenant(q.shopDomain) : TRUE
           admitted == adm.stage = "dispatch"
       IN  \E st \in {IF admitted
                      THEN Dispatch(StoreNow, q.topic, JsonParse(q.body).value, t)
                      ELSE StoreNow} :
           LET out == IF admitted THEN AfterDispatch(st)
                      ELSE [status |-> adm.status, stage |-> adm.stage,
                            success |-> FALSE, error |-> adm.log]
               entries == IF admitted \/ adm.log # Null
                          THEN {logWebhookRequest(n, t, q.topic, out.success, 0,
                                                  out.error, now)}
                          ELSE {}
           IN  /\ requestCounts' =
                     IF adm.stage = "headers" THEN requestCounts
                     ELSE checkRateLimit(requestCounts, q.shopDomain, now).counts
               /\ customers' = st.customers /\ orders' = st.orders
               /\ orderItems' = st.orderItems /\ products' = st.products
               /\ customEvents' = st.customEvents /\ timers' = st.timers
               /\ nextId' = st.nextId
               /\ syncLog' = syncLog \cup entries
               /\ lastWrite' = IF entries = {} THEN lastWrite
                               ELSE NoteWrite(lastWrite, CHOOSE e \in entries : TRUE)
               /\ reqs' = {[n |-> n, req |-> q, status |-> out.status,
                            stage |-> out.stage, tenant |-> t,
                            dispatched |-> admitted, threw |-> st.threw,
                            logged |-> entries,
                            limited |-> /\ adm.stage # "headers"
                                        /\ ~checkRateLimit(requestCounts,
                                                           q.shopDomain, now).ok,
                            counted |-> /\ adm.stage # "headers"
                                        /\ checkRateLimit(requestCounts, q.shopDomain,
                                                          now).counts # requestCounts,
                            wrote |-> <<st.customers, st.orders, st.orderItems,
                                        st.products, st.customEvents>>
                                      # <<customers, orders, orderItems, products,
                                           customEvents>>]}
               /\ applied' = [applied EXCEPT
                     !.reqs = n,
                     !.passes = IF adm.stage \in {"headers", "rateLimit"} THEN @
                                ELSE NotePass(@, q.shopDomain, now)]
    /\ UNCHANGED <<now, tenants, upstream, retry, writers, runs, sched>>

(* detectCartAbandonment, one store call per step: the deferred checks of   *)
(* different carts/update webhooks interleave at their awaits               *)

SetTimer(k, pc) == timers' = (timers \ {k}) \cup {[k EXCEPT !.pc = pc]}

\* the callback starts; findFirst cart_abandoned with eventData.cartId = cart.id
CheckExisting(k) ==
    /\ k \in timers /\ k.pc = "wait" /\ now >= k.due
    /\ IF ~HasLineItems(k.cart) THEN SetTimer(k, "done")
       ELSE IF \E e \in customEvents :
                  /\ e.tenantId = k.tenantId /\ e.eventType = "cart_abandoned"
                  /\ e.cartId = k.cart.id
       THEN SetTimer(k, "done")
       ELSE SetTimer(k, "order")
    /\ UNCHANGED <<now, nextId, storeVars, applied, syncVars, requestCounts, reqs>>

\* findFirst order where tenantId, customerId, createdAt >= cart.updated_at
CheckOrder(k) ==
    /\ k \in timers /\ k.pc = "order"
    /\ IF \E o \in orders :
             /\ o.tenantId = k.tenantId /\ o.customerId = k.customerId
             /\ o.createdAt >= k.cart.updated_at
       THEN SetTimer(k, "done")
       ELSE SetTimer(k, "checkout")
    /\ UNCHANGED <<now, nextId, storeVars, applied, syncVars, requestCounts, reqs>>

\* findFirst checkout_started event where tenantId, customerId, createdAt >= ...
CheckCheckout(k) ==
    /\ k \in timers /\ k.pc = "checkout"
    /\ IF \E e \in customEvents :
             /\ e.tenantId = k.tenantId /\ e.customerId = k.customerId
             /\ e.eventType = "checkout_started"
             /\ e.createdAt >= k.cart.updated_at
       THEN SetTimer(k, "done")
       ELSE SetTimer(k, "create")
    /\ UNCHANGED <<now, nextId, storeVars, applied, syncVars, requestCounts, reqs>>

\* customEvent.create cart_abandoned
CreateAbandoned(k) ==
    /\ k \in timers /\ k.pc = "create"
    /\ customEvents' = customEvents \cup
          {CustomEvent(nextId, k.tenantId, k.customerId, "cart_abandoned",
                       k.cart.id, NoNum, now)}
    /\ nextId' = nextId + 1
    /\ timers' = (timers \ {k}) \cup {[k EXCEPT !.pc = "done", !.created = TRUE]}
    /\ UNCHANGED <<now, tenants, customers, orders, products, orderItems, syncLog,
                   applied, syncVars, requestCounts, reqs>>

-----------------------------------------------------------------------------
(* SpecHook: webhook requests of every kind against a tenant with a secret  *)
(* (t1) and one without (t2)                                                *)

HookSecret == "s1"

HookTopics == {"customers/create", "orders/create", "products/update",
               "carts/update", "checkouts/create", "app/uninstalled"}

\* the document Shopify sends for a topic
BodyOf(topic) ==
    IF topic \in CustomerTopics THEN "customer7"
    ELSE IF topic \in OrderTopics THEN "order1"
    ELSE IF topic \in ProductTopics THEN "product2"
    ELSE IF topic \in CartTopics THEN "cart5"
    ELSE IF topic \in CheckoutTopics THEN "checkout9"
    ELSE "{}"

Request(signature, topic, shopDomain, body) ==
    [signature |-> signature, topic |-> topic, shopDomain |-> shopDomain, body |-> body]

\* what a sender may put in the signature header of a request with this body
Signatures(body) ==
    {SigHeader(enc, body, HookSecret) : enc \in {"base64", "base64url", "truncated", "hex"}}
    \cup {DigestBase64(body, "guess"), DigestBase64("order1b", HookSecret)}

\* bodies that are not the topic's document: empty, not JSON, an empty object
OddBodies == {"", "{junk", "{}"}

\* every header variant with the topic's document; the odd bodies under their
\* own signature and under the signature of another body
SecuredRequests(topic) ==
    {Request(s, topic, "t1.myshopify.com", BodyOf(topic)) : s \in Signatures(BodyOf(topic))}
    \cup UNION {{Request(DigestBase64(b, HookSecret), topic, "t1.myshopify.com", b),
                 Request(DigestBase64("order1b", HookSecret), topic,
                         "t1.myshopify.com", b)} : b \in OddBodies}

OpenRequests(topic) ==
    {Request(DigestBase64(b, HookSecret), topic, "t2.myshopify.com", b) :
        b \in {BodyOf(topic), "{}"}}

HookRequests ==
    {Request(NoHeader, "orders/create", "t1.myshopify.com", "order1"),
     Request(DigestBase64("order1", HookSecret), Null, "t1.myshopify.com", "order1"),
     Request(DigestBase64("order1", HookSecret), "orders/create", Null, "order1"),
     Request(DigestBase64("order1", HookSecret), "orders/create", "nobody.myshopify.com",
             "order1")}
    \cup UNION {SecuredRequests(tp) \cup OpenRequests(tp) : tp \in HookTopics}

\* the rate-limit map after no request, after 99 and after 100 requests of t1's
\* shop in the window opened half a minute ago (requests with an empty body
\* leave no other trace)
InitHook ==
    /\ InitStore
    /\ runs = NoRuns /\ retry = NoRetry /\ writers = {} /\ sched = IdleSched /\ lastWrite = {}
    /\ reqs = {} /\ timers = {}
    /\ upstream = [t \in TenantIds |-> 0]
    /\ tenants = [t \in TenantIds |->
                    TenantRow(TRUE, TRUE, IF t = "t1" THEN HookSecret ELSE Null)]
    /\ \E c \in {0, RateLimitMax - 1, RateLimitMax} :
          requestCounts = IF c = 0 THEN {}
                          ELSE {[key |-> "t1.myshopify.com", count |-> c,
                                 resetTime |-> now + 1]}

NextHook ==
    \/ \E q \in HookRequests : POST(q, MaxHookRequests)
    \/ Tick(1)

SpecHook == InitHook /\ [][NextHook]_vars

-----------------------------------------------------------------------------
(* SpecCart: cart, customer, order and checkout webhooks of one shop, and   *)
(* the deferred abandonment checks they start                               *)

CartRequests ==
    {Request(DigestBase64(BodyOf(tp), HookSecret), tp, "t1.myshopify.com", BodyOf(tp)) :
        tp \in {"carts/update", "customers/create", "orders/create", "checkouts/create"}}

InitCart ==
    /\ InitStore
    /\ InitIdle
    /\ upstream = [t \in {"t1"} |-> 0]
    /\ tenants = [t \in {"t1"} |-> TenantRow(TRUE, TRUE, Null)]

NextCart ==
    \/ \E q \in CartRequests : POST(q, MaxCartRequests)
    \/ \E k \in timers : CheckExisting(k)
    \/ \E k \in timers : CheckOrder(k)
    \/ \E k \in timers : CheckCheckout(k)
    \/ \E k \in timers : CreateAbandoned(k)
    \/ Tick(1)

SpecCart == InitCart /\ [][NextCart]_vars

-----------------------------------------------------------------------------
(* Properties of the webhook route *)

\* the request reached signature verification against a configured secret
Verified(q) ==
    /\ q.tenant # Null
    /\ tenants[q.tenant].webhookSecret # Null

\* the header decodes to the HMAC-SHA256 bytes of the received body
DecodesToHmac(q) ==
    BufferFromBase64(q.req.signature) =
        BufferFromBase64(DigestBase64(q.req.body, tenants[q.tenant].webhookSecret))

\* the request was addressed to a tenant with a configured secret
ToSecuredTenant(q) ==
    /\ q.req.shopDomain # Null
    /\ \E t \in FindTenant(q.req.shopDomain) : tenants[t].webhookSecret # Null

SecretOf(q) ==
    tenants[CHOOSE t \in FindTenant(q.req.shopDomain) : TRUE].webhookSecret

(***************************************************************************)
(* C4 as stated: for a tenant with a configured webhook secret, a request  *)
(* whose signature header is not the base64 HMAC-SHA256 of the received    *)
(* body under that secret is answered 401, is not dispatched and writes no *)
(* Customer, Order, Product, OrderItem or CustomEvent row; a request whose *)
(* header is that base64 text passes verification and is dispatched.       *)
(***************************************************************************)
C4_StrictSignature ==
    \A q \in reqs :
        ToSecuredTenant(q) =>
            IF q.req.signature # DigestBase64(q.req.body, SecretOf(q))
            THEN q.status = 401 /\ ~q.dispatched /\ ~q.wrote
            ELSE q.status # 401 /\ q.dispatched

(***************************************************************************)
(* C4 as amended: for a tenant with a configured webhook secret, a request *)
(* that reaches signature verification (all headers present, inside the    *)
(* rate limit, body not empty) and whose signature header does not decode, *)
(* by the lenient base64 decoding of the platform (standard or URL-safe    *)
(* alphabet, padding optional), to the HMAC-SHA256 bytes of the received   *)
(* body under that secret is answered 401, is not dispatched and writes no *)
(* Customer, Order, Product, OrderItem or CustomEvent row; a request whose *)
(* header is the base64 text of that HMAC passes verification and, when    *)
(* its body parses as JSON, is dispatched.                                 *)
(***************************************************************************)
C4_SignatureRejection ==
    \A q \in reqs :
        Verified(q) =>
            /\ ~DecodesToHmac(q) => q.status = 401 /\ ~q.dispatched /\ ~q.wrote
            /\ q.req.signature = DigestBase64(q.req.body, tenants[q.tenant].webhookSecret)
                  => /\ q.status # 401
                     /\ JsonParse(q.req.body).ok => q.dispatched

\* an order document under the signature of another body is answered 401
C4_Witness ==
    \E q \in reqs :
        /\ Verified(q) /\ q.req.body = "order1"
        /\ q.req.signature = DigestBase64("order1b", HookSecret)
        /\ q.status = 401 /\ ~q.dispatched /\ orders = {}

C5_OneAbandonedPerCart ==
    \A e1, e2 \in customEvents :
        (/\ e1.eventType = "cart_abandoned" /\ e2.eventType = "cart_abandoned"
         /\ e1.tenantId = e2.tenantId /\ e1.cartId = e2.cartId) => e1 = e2

(***************************************************************************)
(* C6: a deferred abandonment check creates no cart_abandoned event when,  *)
(* between its carts/update webhook and its firing, an order of the cart's *)
(* customer was created in the same tenant.                                *)
(***************************************************************************)
C6_OrderSuppressesAbandonment ==
    \A k \in timers : k.orderSeen => ~k.created

-----------------------------------------------------------------------------
(* Stage order of the webhook route *)

\* whether request record q fails the named stage, taken on its own
FailsAt(q, stage) ==
    LET found == IF q.req.shopDomain = Null THEN {} ELSE FindTenant(q.req.shopDomain)
        secret == IF found = {} THEN Null
                  ELSE tenants[CHOOSE t \in found : TRUE].webhookSecret
    IN  CASE stage = "headers" ->
                q.req.signature = NoHeader \/ q.req.topic = Null \/ q.req.shopDomain = Null
          [] stage = "rateLimit" -> q.limited
          [] stage = "body" -> q.req.body = ""
          [] stage = "tenant" -> found = {}
          [] stage = "signature" ->
                secret # Null /\ ~verifyWebhook(q.req.body, q.req.signature, secret)
          [] OTHER -> ~JsonParse(q.req.body).ok

\* the first stage of `order` that q fails, or "none"
FirstFailing(q, order) ==
    LET bad == {k \in 1..Len(order) : FailsAt(q, order[k])}
    IN  IF bad = {} THEN "none"
        ELSE order[CHOOSE k \in bad : \A j \in bad : k <= j]

TerminalStatus(stage) ==
    CASE stage = "rateLimit" -> 429
      [] stage = "tenant" -> 404
      [] stage = "signature" -> 401
      [] OTHER -> 400

\* `stage` comes after tenant resolution in `order`
AfterTenant(stage, order) ==
    \E i, j \in 1..Len(order) : order[i] = "tenant" /\ order[j] = stage /\ i < j

\* every answered request was answered by the first stage of `order` it fails,
\* ran no later stage, and logged a failure exactly when that stage comes
\* after tenant resolution
StagesFollow(order) ==
    \A q \in reqs :
        LET s == FirstFailing(q, order)
        IN  IF s = "none"
            THEN q.dispatched /\ q.status = 200 /\ Cardinality(q.logged) = 1
            ELSE /\ q.status = TerminalStatus(s) /\ q.stage = s
                 /\ ~q.dispatched /\ ~q.wrote
                 /\ q.counted <=> s \notin {"headers", "rateLimit"}
                 /\ IF AfterTenant(s, order)
                    THEN /\ Cardinality(q.logged) = 1
                         /\ \A e \in q.logged :
                               ~e.success /\ e.tenantId = q.tenant /\ e \in syncLog
                    ELSE q.logged = {}

MaxRateRequests == 3

RateRequests ==
    {Request(DigestBase64("", HookSecret), "orders/create", DomainOf(t), "") :
        t \in TenantIds}
    \cup {Request(NoHeader, "orders/create", DomainOf("t1"), "")}

InitRate ==
    /\ now = 100 /\ nextId = 1
    /\ customers = {} /\ orders = {} /\ products = {}
    /\ orderItems = {} /\ customEvents = {} /\ syncLog = {}
    /\ runs = NoRuns /\ retry = NoRetry /\ writers = {} /\ sched = IdleSched /\ lastWrite = {}
    /\ reqs = {} /\ timers = {}
    /\ upstream = [t \in TenantIds |-> 0]
    /\ tenants = [t \in TenantIds |-> TenantRow(TRUE, TRUE, HookSecret)]
    /\ \E c \in {0, RateLimitMax - 1} :
          /\ requestCounts =
                IF c = 0 THEN {}
                ELSE {[key |-> DomainOf("t1"), count |-> c, resetTime |-> now]}
          /\ applied = [NoApplied EXCEPT !.passes =
                IF c = 0 THEN {}
                ELSE {[key |-> DomainOf("t1"), at |-> now - RateLimitWindow, n |-> 1],
                      [key |-> DomainOf("t1"), at |-> now, n |-> c - 1]}]

NextRate ==
    \/ \E q \in RateRequests : POST(q, MaxRateRequests)
    \/ Tick(1)

SpecRate == InitRate /\ [][NextRate]_vars

RECURSIVE SumPasses(_)
SumPasses(ps) ==
    IF ps = {} THEN 0
    ELSE LET p == CHOOSE x \in ps : TRUE IN p.n + SumPasses(ps \ {p})

\* requests of shop `key` that passed the rate-limit stage at a time in [a, b)
PassesIn(key, a, b) ==
    SumPasses({p \in applied.passes : p.key = key /\ a <= p.at /\ p.at < b})

(***************************************************************************)
(* C12: for every shop domain and every interval of 60 seconds, at any     *)
(* offset, at most RateLimitMax requests pass the rate-limit stage.        *)
(***************************************************************************)
C12_SlidingWindow ==
    \A t \in TenantIds : \A a \in (100 - RateLimitWindow)..now :
        PassesIn(DomainOf(t), a, a + RateLimitWindow) <= RateLimitMax

-----------------------------------------------------------------------------
(* SpecInactive: three tenants, t1 deactivated, t2 without an access token, *)
(* t3 active and configured; scheduled syncs, manual syncs and webhooks     *)
(* arrive for all of them                                                   *)

InactiveRequests ==
    {Request(DigestBase64(BodyOf(tp), HookSecret), tp, DomainOf(t), BodyOf(tp)) :
        tp \in {"customers/create", "orders/create", "products/update"},
        t \in {"t1", "t2", "t3"}}

InitInactive ==
    /\ InitStore
    /\ InitIdle
    /\ tenants = [t \in {"t1", "t2", "t3"} |->
                    TenantRow(t # "t1", t # "t2", IF t = "t2" THEN Null ELSE HookSecret)]
    /\ upstream = [t \in {"t1", "t2", "t3"} |-> 1]

NextInactive ==
    \/ SchedStart("orders")
    \/ SchedLaunch
    \/ SchedCollect
    \/ RunStep({FALSE}, {TRUE})
    \/ \E t \in {"t1", "t2", "t3"} : PostSync(t, <<"customers">>, FALSE, FALSE)
    \/ PostRespond
    \/ \E q \in InactiveRequests : POST(q, MaxInactiveRequests)

SpecInactive == InitInactive /\ [][NextInactive]_vars

\* the tenants of the rows of the five data tables
DataTenants ==
    {r.tenantId : r \in customers \cup orders \cup products}
    \cup {r.tenantId : r \in customEvents}
    \cup {o.tenantId : o \in {o \in orders : \E i \in orderItems : i.orderId = o.id}}

(***************************************************************************)
(* C16: for a tenant that is inactive or has no access token, neither a    *)
(* scheduled sync nor a manual sync nor a webhook writes a Customer,       *)
(* Order, Product, OrderItem or CustomEvent row.                           *)
(***************************************************************************)
C16_NoWritesWhenInactive == \A t \in DataTenants : IsSyncable(t)

\* the same for the two sync paths alone: the rows written by syncs belong to
\* the active, configured tenant
C16_SyncsSkipInactive ==
    \A f \in {runs[r] : r \in RunIds} : IsSyncable(f.tenant)

-----------------------------------------------------------------------------
(* SpecTenants: two active tenants whose shops use the same Shopify ids; a  *)
(* scheduled customer sync, a manual (forced) sync and webhooks for both    *)

TenantRequests ==
    {Request(DigestBase64(BodyOf(tp), HookSecret), tp, DomainOf(t), BodyOf(tp)) :
        tp \in {"customers/create", "checkouts/create"}, t \in {"t1", "t2"}}

InitTenants ==
    /\ InitStore
    /\ InitIdle
    /\ tenants = [t \in {"t1", "t2"} |-> TenantRow(TRUE, TRUE, HookSecret)]
    /\ upstream = [t \in {"t1", "t2"} |-> 1]

NextTenants ==
    \/ applied.scheds < MaxTenantScheds /\ SchedStart("customers")
    \/ SchedLaunch
    \/ SchedCollect
    \/ RunStep({FALSE}, {TRUE})
    \/ \E t \in {"t1", "t2"} : PostSync(t, <<"customers", "orders">>, TRUE, FALSE)
    \/ PostRespond
    \/ \E q \in TenantRequests : POST(q, MaxTenantRequests)

SpecTenants == InitTenants /\ [][NextTenants]_vars

\* the rows a tenant owns: its customers, orders, products, the items of its
\* orders, its events and its SyncLog entries
RowsOf(t) ==
    <<{r \in customers : r.tenantId = t}, {r \in orders : r.tenantId = t},
      {r \in products : r.tenantId = t},
      {i \in orderItems : \E o \in orders : o.id = i.orderId /\ o.tenantId = t},
      {r \in customEvents : r.tenantId = t}, {r \in syncLog : r.tenantId = t}>>

\* every customer or product link points to a row of the linking row's tenant,
\* and every row belongs to a tenant
LinksWithinTenant ==
    /\ \A o \in orders : o.customerId # NoRef =>
          \E c \in customers : c.id = o.customerId /\ c.tenantId = o.tenantId
    /\ \A e \in customEvents : e.customerId # NoRef =>
          \E c \in customers : c.id = e.customerId /\ c.tenantId = e.tenantId
    /\ \A i \in orderItems :
          \E o \in orders :
             /\ o.id = i.orderId
             /\ i.productId # NoRef =>
                   \E q \in products : q.id = i.productId /\ q.tenantId = o.tenantId
    /\ \A r \in customers \cup orders \cup products : r.tenantId \in DOMAIN tenants
    /\ \A r \in customEvents \cup syncLog : r.tenantId \in DOMAIN tenants

\* the tenants on whose behalf the step from the unprimed to the primed state
\* was taken: those of the frames that started or moved, of the webhook
\* request just answered and of the deferred cart checks that moved
Acting ==
    {runs'[r].tenant : r \in {x \in DOMAIN runs' : x \notin DOMAIN runs}}
    \cup {runs[r].tenant : r \in {x \in DOMAIN runs \cap DOMAIN runs' : runs'[x] # runs[x]}}
    \cup {q.tenant : q \in {x \in reqs' : applied'.reqs # applied.reqs}}
    \cup {k.tenantId : k \in (timers \ timers') \cup (timers' \ timers)}

(***************************************************************************)
(* C17: tenant isolation.  A step of a sync, a forced re-sync or a webhook  *)
(* of tenant T changes, creates and deletes rows of T only, the rows it    *)
(* writes carry T, and every customer or product link set points to a row  *)
(* of the same tenant.                                                     *)
(***************************************************************************)
C17_TenantIsolation ==
    [][/\ LinksWithinTenant'
       /\ \A t \in DOMAIN tenants : RowsOf(t)' # RowsOf(t) => t \in Acting]_vars

\* both tenants hold the customer with Shopify id 1, and an order of t2 is
\* linked to t2's customer
C17_Witness ==
    /\ \A t \in {"t1", "t2"} : \E c \in customers : c.tenantId = t /\ c.shopifyId = "1"
    /\ \E o \in orders, c \in customers :
          o.tenantId = "t2" /\ o.customerId = c.id /\ c.tenantId = "t2"
    /\ \E e \in customEvents : e.tenantId = "t1"

-----------------------------------------------------------------------------
(* retrySync(syncFn, maxRetries, baseDelay), followed one attempt at a time *)
(* for every behaviour of syncFn: each invocation resolves, rejects with an *)
(* Error or rejects with a value that is not an Error                       *)

Resolved == [ok |-> TRUE, isError |-> FALSE, message |-> Null]
Rejected(isError, message) == [ok |-> FALSE, isError |-> isError, message |-> message]

AttemptOutcomes ==
    {Resolved, Rejected(TRUE, "timeout"), Rejected(TRUE, "refused"), Rejected(FALSE, "text")}

\* lastError = error instanceof Error ? error : new Error('Unknown error')
lastError(thrown) ==
    IF thrown.isError THEN thrown ELSE Rejected(TRUE, "Unknown error")

\* a wait of baseDelay whatever the attempt
fixedDelay(baseDelay, attempt) == baseDelay

\* const delay = baseDelay * Math.pow(2, attempt - 1)
backoffDelay(baseDelay, attempt) == baseDelay * 2 ^ (attempt - 1)

\* retrySync is called with a syncFn whose invocations end as `op` lists
InitRetry ==
    /\ InitStore
    /\ runs = NoRuns /\ sched = IdleSched /\ lastWrite = {} /\ writers = {}
    /\ requestCounts = {} /\ reqs = {} /\ timers = {}
    /\ tenants = [t \in {"t1"} |-> TenantRow(TRUE, TRUE, Null)]
    /\ upstream = [t \in TenantIds |-> 0]
    /\ \E op \in [1..MaxRetries -> AttemptOutcomes] :
          retry = [pc |-> "call", op |-> op, attempt |-> 1, calls |-> 0,
                   waits |-> <<>>, lastError |-> Resolved, thrown |-> Resolved]

\* one pass of the loop body: `return await syncFn()`, or the catch block up to
\* the throw or the start of the wait
RetryAttempt ==
    /\ retry.pc = "call"
    /\ LET out == retry.op[retry.attempt]
           r   == [retry EXCEPT !.calls = @ + 1]
       IN  retry' =
              IF out.ok THEN [r EXCEPT !.pc = "returned"]
              ELSE IF retry.attempt = MaxRetries
              THEN [r EXCEPT !.pc = "threw", !.lastError = lastError(out),
                             !.thrown = lastError(out)]
              ELSE [r EXCEPT !.pc = "wait", !.lastError = lastError(out),
                             !.waits = Append(@, backoffDelay(BaseDelay, retry.attempt))]
    /\ UNCHANGED <<now, nextId, storeVars, applied, upstream, runs, sched, lastWrite, writers,
                   hookVars>>

\* the timer of the wait fires: the loop goes on with the next attempt
RetryWake ==
    /\ retry.pc = "wait"
    /\ retry' = [retry EXCEPT !.pc = "call", !.attempt = @ + 1]
    /\ UNCHANGED <<now, nextId, storeVars, applied, upstream, runs, sched, lastWrite, writers,
                   hookVars>>

NextRetry == RetryAttempt \/ RetryWake

SpecRetry == InitRetry /\ [][NextRetry]_vars

\* the invocations of syncFn that have failed so far
FailedCalls ==
    {k \in 1..retry.calls : ~retry.op[k].ok}

(***************************************************************************)
(* C18: retrySync(op, 3, 1s) invokes op at most 3 times and stops at the    *)
(* first success, returning it; after the k-th failed attempt, k < 3, it   *)
(* waits 1s * 2^(k-1) before the next attempt, so the waits do not         *)
(* decrease; after the third failure it throws that attempt's error        *)
(* without waiting.                                                        *)
(***************************************************************************)
C18_RetryBackoff ==
    /\ retry.calls <= 3
    /\ \A k \in 1..retry.calls : retry.op[k].ok => k = retry.calls /\ retry.pc = "returned"
    /\ retry.pc = "returned" => retry.op[retry.calls].ok
    /\ Len(retry.waits) = Cardinality(FailedCalls \ {3})
    /\ \A k \in 1..Len(retry.waits) : retry.waits[k] = 1000 * 2 ^ (k - 1)
    /\ \A k \in 2..Len(retry.waits) : retry.waits[k - 1] <= retry.waits[k]
    /\ retry.pc = "threw" <=> FailedCalls = {1, 2, 3}
    /\ retry.pc = "threw" /\ retry.op[3].isError => retry.thrown = retry.op[3]

\* an op that fails twice and succeeds on the third attempt
C18_Witness ==
    /\ retry.pc = "returned" /\ retry.calls = 3
    /\ retry.waits = <<1000, 2000>>

-----------------------------------------------------------------------------
(* SpecItems: upserts of the same order of one tenant, from webhooks and    *)
(* syncs alike, which may overlap in time and may fail at a line item       *)

ItemPayloads == {p \in OrderPayloads : p.line_items # None}

NextItems ==
    \/ \E p \in ItemPayloads, failAt \in 0..2 : WriterStart("t1", p, failAt)
    \/ \E w \in writers : WriterUpsert(w)
    \/ \E w \in writers : WriterDelete(w)
    \/ \E w \in writers : WriterCreate(w)

SpecItems == InitUpsert /\ [][NextItems]_vars

\* an OrderItem row without its generated id
ItemData(r) == [f \in DOMAIN r \ {"id"} |-> r[f]]

\* the order's OrderItem rows are the line items of payload p, each once
ItemsAre(orderId, t, p) ==
    LET rows == {r \in orderItems : r.orderId = orderId}
        lis  == p.line_items[1]
    IN  /\ Cardinality(rows) = Len(lis)
        /\ {ItemData(r) : r \in rows} =
              {OrderItemData(products, t, orderId, lis[i]) : i \in 1..Len(lis)}

(***************************************************************************)
(* C21: once every upsert of an order has ended, overlapping ones          *)
(* included, the order's OrderItem rows are the line items of exactly one  *)
(* of the payloads whose upsert completed, never a mix of two payloads or  *)
(* duplicates; an upsert that failed part-way has left the collection of   *)
(* the last completed upsert in place (none if there was no such upsert).  *)
(***************************************************************************)
C21_ItemsReplacedAtomically ==
    (writers # {} /\ \A w \in writers : w.pc \in {"done", "failed"}) =>
        \A o \in orders :
            IF \E w \in writers : w.pc = "done"
            THEN \E w \in writers : w.pc = "done" /\ ItemsAre(o.id, o.tenantId, w.p)
            ELSE {r \in orderItems : r.orderId = o.id} = {}

-----------------------------------------------------------------------------
(* SpecNumbers: upserts of customers and orders whose decimal fields are    *)
(* valid, missing or not a number.  parseFloat turns the latter into NaN;   *)
(* what the store does with NaN in a DECIMAL column is left open: it keeps  *)
(* it or it rejects the write, which makes the upsert throw.                *)

DecimalInputs == {Null, "abc", "10.50"}

NumericCustomers ==
    {[Customer7 EXCEPT !.total_spent = x] : x \in DecimalInputs}

NumericOrders ==
    {[Order1 EXCEPT !.total_price = x, !.subtotal_price = y,
                    !.line_items = << << [LineItemsA[1] EXCEPT !.price = z] >> >>] :
        x \in DecimalInputs, y \in DecimalInputs, z \in DecimalInputs}

\* the write carries NaN in one of its DECIMAL fields
HasNaN(data, fields) == \E f \in fields : data[f] = NaN

ApplyNumericCustomer(t, p, accepts) ==
    /\ applied.n < MaxNumericApplies
    /\ customers' = IF HasNaN(CustomerCreateData(t, p), {"totalSpent"}) /\ ~accepts THEN customers
                    ELSE upsertCustomer(customers, t, p, nextId, now)
    /\ nextId' = nextId + 1
    /\ applied' = [applied EXCEPT !.n = @ + 1,
                     !.customers = NoteApplied(@, t, ToStr(p.id), p, NoRef)]
    /\ UNCHANGED <<now, tenants, orders, products, orderItems, customEvents,
                   syncLog, syncVars, hookVars>>

ApplyNumericOrder(t, p, accepts) ==
    /\ applied.n < MaxNumericApplies
    /\ LET link     == OrderCustomerLink(customers, t, p)
           rowFails == HasNaN(OrderCreateData(t, p, link),
                                 {"totalPrice", "subtotalPrice", "totalTax"}) /\ ~accepts
           newRows  == upsertOrderRow(orders, customers, t, p, nextId, now)
           orderId  == FindId(newRows, t, ToStr(p.id))
           li       == p.line_items[1][1]
           liFails  == HasNaN(OrderItemData(products, t, orderId, li),
                                {"price", "totalDiscount"}) /\ ~accepts
       IN  /\ orders' = IF rowFails THEN orders ELSE newRows
           /\ orderItems' =
                 IF rowFails THEN orderItems
                 ELSE IF liFails THEN {r \in orderItems : r.orderId # orderId}
                 ELSE replaceOrderItems(orderItems, products, t, p, orderId, nextId + 1)
           /\ applied' = [applied EXCEPT !.n = @ + 1,
                            !.orders = NoteApplied(@, t, ToStr(p.id), p, link)]
    /\ nextId' = nextId + 1 + LineItemCount(p)
    /\ UNCHANGED <<now, tenants, customers, products, customEvents,
                   syncLog, syncVars, hookVars>>

NextNumbers ==
    \/ \E p \in NumericCustomers, accepts \in BOOLEAN : ApplyNumericCustomer("t1", p, accepts)
    \/ \E p \in NumericOrders, accepts \in BOOLEAN : ApplyNumericOrder("t1", p, accepts)

SpecNumbers == InitUpsert /\ [][NextNumbers]_vars

\* the stored amount the claim asks for: the parsed decimal, 0 where the field
\* is missing or not a decimal string
OrZero(s) == IF ParseFloat(StrOr(s, "0")) = NaN THEN "0" ELSE ParseFloat(StrOr(s, "0"))

(***************************************************************************)
(* C24: a customer, order or line item whose price or total field is       *)
(* missing or is not a valid decimal string is still stored by the upsert, *)
(* with 0 in that field; nothing is dropped or rejected because of it.     *)
(***************************************************************************)
C24_InvalidAmountsAreZero ==
    /\ \A a \in applied.customers :
          \E r \in ByKey(customers, a.tenantId, a.shopifyId) :
              r.totalSpent = OrZero(a.last.total_spent)
    /\ \A a \in applied.orders :
          \E r \in ByKey(orders, a.tenantId, a.shopifyId) :
              /\ r.totalPrice = OrZero(a.last.total_price)
              /\ r.subtotalPrice = OrZero(a.last.subtotal_price)
              /\ \E i \in orderItems :
                    i.orderId = r.id /\ i.price = OrZero(a.last.line_items[1][1].price)

-----------------------------------------------------------------------------
(* SpecTimers: the cron timers of the orders and the customers sync, which  *)
(* have the same schedule, fire at the same minute; each callback runs      *)
(* scheduleSync of its type with no knowledge of the other                  *)

CronRun(k, t) == <<"cron", k, t>>

CronTypes == {"orders", "customers"}

\* cron.schedule(SCHEDULES.ORDERS / CUSTOMERS, () => scheduleSync(type)):
\* syncAllTenants({types: [type]}) reads the active tenants and starts
\* syncTenant for each tenant of its first batch; each timer fires once
CronFire(ty) ==
    /\ \A r \in DOMAIN runs : runs[r].origin = "cron" => runs[r].types # <<ty>>
    /\ Len(ActiveTenants) <= BatchSize
    /\ LET k   == applied.scheds + 1
           b   == Batch(ActiveTenants, 1)
           new == {CronRun(k, b[j]) : j \in 1..Len(b)}
       IN  runs' = [x \in DOMAIN runs \cup new |->
                      IF x \in new THEN NewFrame(x[3], <<ty>>, FALSE, "cron", k, now)
                      ELSE runs[x]]
    /\ applied' = [applied EXCEPT !.scheds = @ + 1]
    /\ UNCHANGED <<now, nextId, storeVars, upstream, retry, writers, sched, lastWrite, hookVars>>

InitTimers ==
    /\ InitStore
    /\ InitIdle
    /\ tenants = [t \in {"t1", "t2"} |-> TenantRow(TRUE, TRUE, Null)]
    /\ upstream = [t \in TenantIds |-> IF t = "t1" THEN 1 ELSE 0]

NextTimers ==
    \/ \E ty \in CronTypes : CronFire(ty)
    \/ RunStep({FALSE}, {TRUE})

SpecTimers == InitTimers /\ [][NextTimers]_vars

\* an entity-type sync of the frame is under way: the guard let it through and
\* it has not yet produced its result
SyncInFlight(f) == f.pc \in {"reset", "cursor", "fetch", "process", "mark", "log"}

(***************************************************************************)
(* C26: for one tenant the entity-type syncs started by the scheduler run  *)
(* one at a time: no two of them are in flight at once, also when the      *)
(* timers of different entity types fire at the same instant.              *)
(***************************************************************************)
C26_OneSyncPerTenant ==
    \A r1, r2 \in DOMAIN runs :
        /\ r1 # r2
        /\ runs[r1].origin = "cron" /\ runs[r2].origin = "cron"
        /\ runs[r1].tenant = runs[r2].tenant
        => ~(SyncInFlight(runs[r1]) /\ SyncInFlight(runs[r2]))

-----------------------------------------------------------------------------
(* SpecGuest: carts of a customer the store does not know (customer 7) and  *)
(* of a guest, beside orders and checkouts of guests                        *)

MaxGuestRequests == 3

GuestRequests ==
    {Request(DigestBase64(b[2], HookSecret), b[1], "t1.myshopify.com", b[2]) :
        b \in {<<"carts/update", "cart5">>, <<"carts/update", "cart6">>,
               <<"orders/create", "order2">>, <<"checkouts/create", "checkout4">>}}

NextGuest ==
    \/ \E q \in GuestRequests : POST(q, MaxGuestRequests)
    \/ \E k \in timers : CheckExisting(k)
    \/ \E k \in timers : CheckOrder(k)
    \/ \E k \in timers : CheckCheckout(k)
    \/ \E k \in timers : CreateAbandoned(k)
    \/ Tick(1)

SpecGuest == InitCart /\ [][NextGuest]_vars

\* the external id of the customer an order or checkout document names
\* (order.customer?.id, checkout.customer_id), NoNum where it names none
DocCustomer(topic, doc) ==
    IF topic \in OrderTopics THEN Field(doc, "customer", NoNum)
    ELSE Field(doc, "customer_id", NoNum)

\* the shop has received an order or a started checkout of the customer the
\* timer's cart names
OwnActivity(k) ==
    \E q \in reqs :
        /\ q.dispatched /\ ~q.threw /\ q.tenant = k.tenantId
        /\ q.req.topic \in OrderTopics \cup {"checkouts/create"}
        /\ DocCustomer(q.req.topic, JsonParse(q.req.body).value) # NoNum
        /\ DocCustomer(q.req.topic, JsonParse(q.req.body).value) =
              Field(k.cart, "customer_id", NoNum)

\* the deferred check of timer k ends in this step because it found an order
\* or a started checkout
Suppressed(k) == k.pc \in {"order", "checkout"} /\ [k EXCEPT !.pc = "done"] \in timers'

(***************************************************************************)
(* C27: a deferred abandonment check is suppressed only by an order or a   *)
(* started checkout of the cart's own customer; activity of a different or *)
(* unidentified customer never keeps cart_abandoned from being recorded,   *)
(* also when the cart has no resolved customer.                            *)
(***************************************************************************)
C27_OnlyOwnCustomerSuppresses ==
    [][\A k \in timers : Suppressed(k) => OwnActivity(k)]_vars

(***************************************************************************)
(* C28: a cart_abandoned event is recorded only when the full abandonment  *)
(* delay has passed since the most recent carts/update webhook of that     *)
(* cart: the check an earlier update scheduled never marks the cart        *)
(* abandoned after a later update has arrived.                             *)
(***************************************************************************)
C28_DelaySinceLastUpdate ==
    \A e, u \in customEvents :
        (/\ e.eventType = "cart_abandoned" /\ u.eventType = "cart_updated"
         /\ u.tenantId = e.tenantId /\ u.cartId = e.cartId
         /\ u.id < e.id)
        => e.createdAt >= u.createdAt + AbandonDelay

\* the number of rows in the tables a webhook handler writes
RowCounts(c, o, p, i, e) ==
    <<Cardinality(c), Cardinality(o), Cardinality(p), Cardinality(i), Cardinality(e)>>

(***************************************************************************)
(* C29: a duplicate delivery is harmless for every topic: processing again *)
(* a webhook (same webhook id, topic and body) that was processed before   *)
(* adds no Customer, Order, Product, OrderItem or CustomEvent row.         *)
(***************************************************************************)
C29_DuplicateAddsNoRow ==
    [][\A q2 \in reqs' \ reqs :
          (\E q1 \in reqs : q1.req = q2.req /\ q1.dispatched /\ ~q1.threw)
          => RowCounts(customers', orders', products', orderItems', customEvents') =
             RowCounts(customers, orders, products, orderItems, customEvents)]_vars

-----------------------------------------------------------------------------
(* SpecWebhookLog: webhook requests, their deferred checks and a webhook    *)
(* registration for a tenant whose orders or customers were synced half a   *)
(* minute ago                                                               *)

MaxLogRequests == 2

\* the topics ShopifyService.registerWebhooks subscribes to, in its order
RegisteredTopics ==
    <<"orders/create", "orders/updated", "orders/paid", "orders/cancelled",
      "customers/create", "customers/update", "products/create", "products/update",
      "carts/create", "carts/update", "checkouts/create", "checkouts/update">>

RegisterId(t, i) == <<"register", 1, t, i, "hook">>

\* WebhookManager.registerWebhooksForTenant: registerWebhooks answers with a
\* status per topic ('failed' for the topics of `failed`), and
\* logWebhookRegistration creates one SyncLog row per result; where
\* getWebhooks throws (listed = FALSE) nothing is logged
RegisterWebhooks(t, listed, failed) ==
    /\ t \in DOMAIN tenants /\ tenants[t].hasToken
    /\ \A e \in syncLog : e.id[1] # "register"
    /\ LET entries == IF ~listed THEN {}
                      ELSE {LogEntry(RegisterId(t, i), t,
                                     WebhookSyncType(RegisteredTopics[i]),
                                     RegisteredTopics[i] \notin failed, 1, 0,
                                     IF RegisteredTopics[i] \in failed
                                     THEN "Unknown error" ELSE Null, now) :
                               i \in 1..Len(RegisteredTopics)}
       IN  /\ syncLog' = syncLog \cup entries
           /\ lastWrite' =
                 {w \in lastWrite :
                     \A e \in entries : ~(w.tenantId = e.tenantId /\ w.syncType = e.syncType)}
                 \cup {[tenantId |-> e.tenantId, syncType |-> e.syncType, id |-> e.id,
                        success |-> e.success, at |-> e.createdAt] : e \in entries}
    /\ UNCHANGED <<now, nextId, tenants, customers, orders, products, orderItems,
                   customEvents, applied, upstream, runs, sched, retry, writers, hookVars>>

LogRequests ==
    CartRequests \cup
    {Request(DigestBase64("product2", HookSecret), "products/update", "t1.myshopify.com",
             "product2"),
     Request(DigestBase64("order1", HookSecret), "orders", "t1.myshopify.com", "order1")}

InitWebhookLog ==
    /\ InitData
    /\ InitIdle
    /\ tenants = [t \in {"t1"} |-> TenantRow(TRUE, TRUE, Null)]
    /\ upstream = [t \in {"t1"} |-> 0]
    /\ \E recent \in SUBSET {"orders", "customers"} :
          syncLog = {LogEntry(<<"init", ty>>, "t1", ty, TRUE, 0, 0, Null, 99) :
                       ty \in recent}

NextWebhookLog ==
    \/ \E q \in LogRequests : POST(q, MaxLogRequests)
    \/ \E listed \in BOOLEAN,
          failed \in {{}, {"orders/create"}, {"customers/update", "carts/update"}} :
          RegisterWebhooks("t1", listed, failed)
    \/ \E k \in timers : CheckExisting(k)
    \/ \E k \in timers : CheckOrder(k)
    \/ \E k \in timers : CheckCheckout(k)
    \/ \E k \in timers : CreateAbandoned(k)
    \/ Tick(1)

SpecWebhookLog == InitWebhookLog /\ [][NextWebhookLog]_vars

\* the sync types of the orchestrator
EntityTypes == {"orders", "customers", "products", "analytics"}

\* the entries written by the webhook route and by the webhook registration
WebhookEntries(log) == {e \in log : e.id[1] \in {"webhook", "register"}}

(***************************************************************************)
(* C30: webhook activity never moves a sync cursor and never trips the     *)
(* guard of the scheduler: a step that processes a webhook, runs a         *)
(* deferred check or logs a registration leaves the last sync time and the *)
(* guard's answer of every (tenant, entity type) as they were, and the     *)
(* SyncLog entries it writes carry a sync type that is none of orders,     *)
(* customers, products, analytics.                                         *)
(***************************************************************************)
C30_WebhooksLeaveCursors ==
    [][now' = now =>
          /\ \A e \in WebhookEntries(syncLog') : e.syncType \notin EntityTypes
          /\ \A t \in DOMAIN tenants, ty \in EntityTypes :
                /\ getLastSyncTime(syncLog', t, ty) = getLastSyncTime(syncLog, t, ty)
                /\ shouldSync(syncLog', now', t, <<ty>>) = shouldSync(syncLog, now, t, <<ty>>)]_vars

\* an orders webhook and the registration have been logged after a sync of
\* orders recorded its success
C30_Witness ==
    /\ getLastSyncTime(syncLog, "t1", "orders") = 99
    /\ \E e \in syncLog : e.id[1] = "webhook" /\ e.syncType = "webhook_orders_create"
                          /\ e.success /\ e.createdAt > 99
    /\ \E e \in syncLog : e.id[1] = "register" /\ e.syncType = "webhook_orders_create"

=============================================================================
